---- MODULE Spec2Model ----
(***************************************************************************)
(* Model of the RAG chat backend: rag/rag.js (ingestion, the serialized    *)
(* embedding queue, retrieval), backend/db.js (content store and           *)
(* conversation log) and backend/server.js (startup, the watcher worker,   *)
(* the chat handler and the completion orchestrators).                     *)
(*                                                                         *)
(* Spec     : startup, bulk ingestion, the watcher worker, the embedding   *)
(*            queue and concurrent retrievals over one content store.      *)
(* SpecTurn : one chat turn after another, from the budgeting step of the  *)
(*            handler through the completion orchestrator to the logged    *)
(*            reply, in the streaming and the blocking variant.            *)
(* SpecRetrieve : one call of retrieveContext over a corpus with given     *)
(*            similarities, with the result it returns.                    *)
(* SpecWatch : the running watcher and its worker, with fairness.          *)
(* SpecQueue : the embedding queue shared by watcher ingestions and        *)
(*            retrievals, with fairness.                                   *)
(* SpecChat : chat turns in flight at the same time, interleaving at       *)
(*            their awaits.                                                *)
(* SpecSplit : one call of splitText, one step per turn of its loop.       *)
(***************************************************************************)
EXTENDS Integers, Sequences, FiniteSets, TLC

(***************************************************************************)
(* Bounds of the model.                                                    *)
(***************************************************************************)
\* file-system writes per run (each bumps the file's mtime)
MaxWrites == 1
\* watch events delivered per run
MaxEvents == 2
\* retrievals started per run
MaxRetrievals == 2

(***************************************************************************)
(* The knowledge-base directory and the names watch events can carry.      *)
(***************************************************************************)
Files == {"a.pdf", "b.pdf"}

EventNames == Files \cup {"notes.txt"}

\* the directory scan order of readdirSync, and Set insertion order
FileOrder == <<"a.pdf", "b.pdf">>

\* filename.toLowerCase().endsWith('.pdf')
IsPdf(name) == name \in Files

\* content digests a file can have; 0 stands for "no such file"
Hashes == 1..2

Absent == [hash |-> 0, mtime |-> 0]

\* splitText over the text extracted from content h: content h yields h
\* chunks, chunk i carrying the text <<h, i>>
ChunksOf(h) == [i \in 1..h |-> <<h, i - 1>>]

\* the endpoint's embedding of one input text (one vector per input, in order)
EmbeddingOf(text) == <<"vec", text>>

(***************************************************************************)
(* Callers of the embedding queue.                                         *)
(***************************************************************************)
Readers == {"r1", "r2"}

\* activations of processQueue; the startup scan is the ingester "bulk"
Workers == {"w1", "w2"}

Ingesters == {"bulk"} \cup Workers

Owners == {"warmup"} \cup Ingesters \cup Readers

VARIABLES
    disk,                    \* Files -> [hash, mtime] or Absent
    writes,                  \* number of file-system writes so far
    documents,               \* table documents, in rowid order
    embeddings,              \* table embeddings, in rowid order
    jobs,                    \* table indexing_jobs, in rowid order
    embTask,                 \* per caller: its task in the embedding queue
    embeddingQueue,          \* the tail promise of the queue: an owner or "resolved"
    embOrder,                \* history: the unsettled tasks in the order of their
                             \* queueEmbeddingTask calls
    embeddingWarmupPromise,  \* "null", "pending", "fulfilled", "rejected"
    chatWarmupPromise,       \* "null", "pending", "fulfilled", "rejected"
    startupPc,               \* position of startup()
    startupError,            \* the error startup() was rejected with, if any
    bulkFiles,               \* files of the startup scan still to ingest
    bulkResults,             \* results collected by ingestDocuments
    ing,                     \* per ingester: the running ingestDocument call
    pendingFiles,            \* the watcher's pending set, in insertion order
    processingQueue,         \* the worker's in-flight flag
    workerPc,                \* per activation of processQueue: its position
    lastResult,              \* indexingState.lastResult of the worker
    events,                  \* number of watch events delivered
    reader,                  \* per reader: the running retrieveContext call
    retrievals               \* number of retrievals started

VARIABLES
    outputTokenCap,          \* CONFIG.outputTokenCap
    systemPromptLen,         \* length of the loaded system prompt
    variant,                 \* "stream" (server.js) or "block" (db.js) handler
    messages,                \* table messages of the conversation, in id order
    interactions,            \* table interactions, in id order
    turnPc,                  \* position of the chat handler
    turns,                   \* number of chat requests so far
    user,                    \* the turn's message, its row id and language
    streamedText,            \* streamState.streamedText
    kept,                    \* selectedContext after budgeting
    attempt,                 \* orchestrator: attempt
    maxTokens,               \* orchestrator: maxTokens
    lastError,               \* orchestrator: lastError
    collected,               \* streaming orchestrator: collected
    lastFinishReason,        \* streaming orchestrator: lastFinishReason
    requests,                \* max_tokens of the completion requests of the turn
    open,                    \* completion requests of the turn now in flight
    response,                \* what the handler answered (the done event / JSON)
    caught,                  \* the error caught by the handler's catch block
    prompt                   \* the context and history of the prompt of the turn

VARIABLES
    similarity,              \* cosineSimilarity(queryEmbedding, row) of each stored row
    retrieval                \* one call of retrieveContext: position, rows, result

VARIABLES
    chat                     \* the chat handlers in flight at once: position and locals

VARIABLES
    split                    \* one call of splitText: arguments, start, chunks

scoreVars == <<similarity, retrieval>>

storeVars == <<documents, embeddings, jobs>>

queueVars == <<embTask, embeddingQueue, embOrder>>

warmVars == <<embeddingWarmupPromise, chatWarmupPromise>>

bulkVars == <<bulkFiles, bulkResults>>

watchVars == <<pendingFiles, processingQueue, workerPc, lastResult, events>>

readVars == <<reader, retrievals>>

diskVars == <<disk, writes>>

ragVars == <<disk, writes, documents, embeddings, jobs, embTask, embeddingQueue, embOrder,
             embeddingWarmupPromise, chatWarmupPromise, startupPc, bulkFiles,
             bulkResults, ing, pendingFiles, processingQueue, workerPc, lastResult,
             events, reader, retrievals, startupError>>

configVars == <<outputTokenCap, systemPromptLen, variant>>

logVars == <<messages, interactions>>

orchVars == <<attempt, maxTokens, lastError, collected, lastFinishReason>>

turnVars == <<configVars, logVars, turnPc, turns, user, streamedText, kept, orchVars,
              requests, open, response, caught, prompt>>

vars == <<ragVars, turnVars, scoreVars, chat, split>>

(***************************************************************************)
(* Sequence helpers.                                                       *)
(***************************************************************************)
RECURSIVE MapRows(_, _)
\* rows.map(...) for the join of getAllEmbeddings
MapRows(embs, docs) ==
    IF embs = <<>> THEN <<>>
    ELSE LET e == Head(embs)
             d == SelectSeq(docs, LAMBDA x : x.id = e.document_id)
         IN  (IF d = <<>> THEN <<>>
              ELSE <<[filename |-> d[1].filename, chunk_index |-> e.chunk_index,
                      embedding |-> e.embedding, text |-> e.text]>>)
             \o MapRows(Tail(embs), docs)

InSeq(x, s) == \E i \in 1..Len(s) : s[i] = x

(***************************************************************************)
(* backend/db.js: the content store.                                       *)
(***************************************************************************)
NoDoc == [id |-> 0, filename |-> "", mtime |-> 0, hash |-> 0]

\* SELECT * FROM documents WHERE filename = ? (.get: the first row)
GetDocumentByFilename(docs, f) ==
    LET hit == SelectSeq(docs, LAMBDA d : d.filename = f)
    IN  IF hit = <<>> THEN NoDoc ELSE hit[1]

\* the mutant: the INSERT without the SELECT for an existing row
ReplaceDocumentMetadataAlwaysInserts(docs, embs, f, mtime, hash) ==
    [docs |-> Append(docs, [id |-> Len(docs) + 1, filename |-> f,
                            mtime |-> mtime, hash |-> hash]),
     embs |-> embs,
     id   |-> Len(docs) + 1]

\* the mutant: the UPDATE without the DELETE of the old chunk rows
ReplaceDocumentMetadataKeepsChunks(docs, embs, f, mtime, hash) ==
    LET existing == GetDocumentByFilename(docs, f)
    IN  IF existing # NoDoc
        THEN [docs |-> [i \in 1..Len(docs) |->
                          IF docs[i].id = existing.id
                          THEN [docs[i] EXCEPT !.mtime = mtime, !.hash = hash]
                          ELSE docs[i]],
              embs |-> embs,
              id   |-> existing.id]
        ELSE [docs |-> Append(docs, [id |-> Len(docs) + 1, filename |-> f,
                                     mtime |-> mtime, hash |-> hash]),
              embs |-> embs,
              id   |-> Len(docs) + 1]

\* replaceDocumentMetadata: update the row and drop its chunks, or insert
ReplaceDocumentMetadata(docs, embs, f, mtime, hash) ==
    LET existing == GetDocumentByFilename(docs, f)
    IN  IF existing # NoDoc
        THEN [docs |-> [i \in 1..Len(docs) |->
                          IF docs[i].id = existing.id
                          THEN [docs[i] EXCEPT !.mtime = mtime, !.hash = hash]
                          ELSE docs[i]],
              embs |-> SelectSeq(embs, LAMBDA e : e.document_id # existing.id),
              id   |-> existing.id]
        ELSE [docs |-> Append(docs, [id |-> Len(docs) + 1, filename |-> f,
                                     mtime |-> mtime, hash |-> hash]),
              embs |-> embs,
              id   |-> Len(docs) + 1]

\* the mutant: the ordinal is stored one-based
StoreEmbeddingChunkOneBased(embs, documentId, chunkIndex, embedding, text) ==
    Append(embs, [document_id |-> documentId, chunk_index |-> chunkIndex + 1,
                  embedding |-> embedding, text |-> text])

StoreEmbeddingChunk(embs, documentId, chunkIndex, embedding, text) ==
    Append(embs, [document_id |-> documentId, chunk_index |-> chunkIndex,
                  embedding |-> embedding, text |-> text])

\* SELECT ... FROM embeddings JOIN documents ON documents.id = document_id
GetAllEmbeddings(docs, embs) == MapRows(embs, docs)

StartIndexingJob(js, f, mtime, hash) ==
    Append(js, [filename |-> f, status |-> "running", mtime |-> mtime,
                hash |-> hash, error |-> "none"])

CompleteIndexingJob(js, jobId) ==
    [js EXCEPT ![jobId].status = "success", ![jobId].error = "none"]

\* the mutant: the failure is not recorded on the job
FailIndexingJobDropped(js, jobId, error) == js

FailIndexingJob(js, jobId, error) ==
    [js EXCEPT ![jobId].status = "error", ![jobId].error = error]

RECURSIVE StoreAll(_, _, _, _, _)
\* embeddings.forEach((embedding, idx) => storeEmbeddingChunk(...))
StoreAll(embs, docId, vectors, chunks, idx) ==
    IF idx > Len(vectors) THEN embs
    ELSE StoreAll(StoreEmbeddingChunk(embs, docId, idx - 1, vectors[idx], chunks[idx]),
                  docId, vectors, chunks, idx + 1)

(***************************************************************************)
(* rag/rag.js: the embedding queue.                                        *)
(***************************************************************************)
NoTask == [state |-> "none", after |-> "resolved"]

\* the mutant: run = task(), the task is not chained behind the queue's tail
QueueEmbeddingTaskUnchained(o) ==
    /\ embTask' = [embTask EXCEPT ![o] = [state |-> "queued", after |-> "resolved"]]
    /\ embeddingQueue' = o
    /\ embOrder' = Append(embOrder, o)

\* run = embeddingQueue.then(() => task()); embeddingQueue = run.catch(() => {})
QueueEmbeddingTask(o) ==
    /\ embTask' = [embTask EXCEPT ![o] = [state |-> "queued", after |-> embeddingQueue]]
    /\ embeddingQueue' = o
    /\ embOrder' = Append(embOrder, o)

\* the mutant: a settling task releases every waiting task, not only the
\* one chained on it
SettleEmbeddingTaskReleasesAll(o) ==
    /\ embTask' = [x \in Owners |->
                     IF x = o THEN NoTask
                     ELSE [embTask[x] EXCEPT !.after = "resolved"]]
    /\ embeddingQueue' = IF embeddingQueue = o THEN "resolved" ELSE embeddingQueue
    /\ embOrder' = SelectSeq(embOrder, LAMBDA x : x # o)

\* the mutant: embeddingQueue = run, without the catch: the tasks chained on
\* a settled task are not released
SettleEmbeddingTaskHolds(o) ==
    /\ embTask' = [embTask EXCEPT ![o] = NoTask]
    /\ embeddingQueue' = IF embeddingQueue = o THEN "resolved" ELSE embeddingQueue
    /\ embOrder' = SelectSeq(embOrder, LAMBDA x : x # o)

\* the promise of o's task settles: whatever was chained on it may now run
SettleEmbeddingTask(o) ==
    /\ embTask' = [x \in Owners |->
                     IF x = o THEN NoTask
                     ELSE IF embTask[x].after = o
                          THEN [embTask[x] EXCEPT !.after = "resolved"]
                          ELSE embTask[x]]
    /\ embeddingQueue' = IF embeddingQueue = o THEN "resolved" ELSE embeddingQueue
    /\ embOrder' = SelectSeq(embOrder, LAMBDA x : x # o)

\* embeddings.create is called: the request to the endpoint is in flight
EmbeddingTaskStart(o) ==
    /\ startupPc # "exit"
    /\ embTask[o].state = "queued"
    /\ embTask[o].after = "resolved"
    /\ embTask' = [embTask EXCEPT ![o].state = "running"]
    /\ UNCHANGED <<diskVars, storeVars, embeddingQueue, embOrder, warmVars, startupPc,
                   bulkVars, ing, watchVars, readVars>>
    /\ UNCHANGED <<turnVars, scoreVars, chat, split, startupError>>

InFlightEmbeddings == {o \in Owners : embTask[o].state = "running"}

(***************************************************************************)
(* rag/rag.js: ingestDocument.                                             *)
(***************************************************************************)
\* indexingState.lastResult before any result (null)
NoResult == [filename |-> "", status |-> "none", error |-> "none"]

\* startup() has not been rejected
NoError == [message |-> "none", files |-> <<>>]

\* new Error(message), with the filenames the message lists
Error(message, files) == [message |-> message, files |-> files]

IdleIng == [pc |-> "none", filename |-> "", mtime |-> 0, hash |-> 0, jobId |-> 0]

\* the mutant: the recorded mtime is compared with a rounded-up stat time
UnchangedMtimeOff(existing, stat) ==
    existing # NoDoc /\ existing.hash = stat.hash /\ existing.mtime = stat.mtime + 1

\* existing && existing.hash === hash && existing.mtime === stat.mtimeMs
Unchanged(existing, stat) ==
    existing # NoDoc /\ existing.hash = stat.hash /\ existing.mtime = stat.mtime

\* the mutant: ingestDocument without its existence check
IngestOutcomeUnchecked(f) ==
    IF Unchanged(GetDocumentByFilename(documents, f), disk[f]) THEN "skipped"
    ELSE "started"

\* how the synchronous head of ingestDocument(f) ends
IngestOutcome(f) ==
    IF disk[f] = Absent THEN "missing"
    ELSE IF Unchanged(GetDocumentByFilename(documents, f), disk[f]) THEN "skipped"
    ELSE "started"

ImmediateResult(f) ==
    IF IngestOutcome(f) = "missing"
    THEN [filename |-> f, status |-> "error", error |-> "no longer exists"]
    ELSE [filename |-> f, status |-> "skipped", error |-> "none"]

\* ingestDocument up to its first await: existence check, stat, read, hash,
\* the unchanged test, startIndexingJob, pdf(buffer)
IngestDocumentCall(p, f) ==
    /\ IF IngestOutcome(f) = "started"
       THEN /\ jobs' = StartIndexingJob(jobs, f, disk[f].mtime, disk[f].hash)
            /\ ing' = [ing EXCEPT ![p] = [pc |-> "parse", filename |-> f,
                                          mtime |-> disk[f].mtime, hash |-> disk[f].hash,
                                          jobId |-> Len(jobs) + 1]]
       ELSE UNCHANGED <<jobs, ing>>
    /\ UNCHANGED <<documents, embeddings>>

\* the store after lines 89-94: metadata replaced, every chunk stored, job completed
IngestCommit(docs, embs, js, c) ==
    LET chunks  == ChunksOf(c.hash)
        vectors == [i \in 1..Len(chunks) |-> EmbeddingOf(chunks[i])]
        r       == ReplaceDocumentMetadata(docs, embs, c.filename, c.mtime, c.hash)
    IN  [docs |-> r.docs,
         embs |-> StoreAll(r.embs, r.id, vectors, chunks, 1),
         jobs |-> CompleteIndexingJob(js, c.jobId)]

\* the mutant: the metadata is replaced before the embeddings are awaited, so a
\* failure leaves the new hash recorded and the old chunks gone
IngestFailureAfterReplace(docs, embs, js, c, error) ==
    LET r == ReplaceDocumentMetadata(docs, embs, c.filename, c.mtime, c.hash)
    IN  [docs |-> r.docs, embs |-> r.embs, jobs |-> FailIndexingJob(js, c.jobId, error)]

\* the store after the catch block of lines 96-99
IngestFailure(docs, embs, js, c, error) ==
    [docs |-> docs, embs |-> embs, jobs |-> FailIndexingJob(js, c.jobId, error)]

\* the mutant: processQueue without its try/catch, so a failed ingestion
\* ends the worker with the flag still set
DeliverUncaught(p, res) ==
    IF p = "bulk"
    THEN /\ bulkResults' = Append(bulkResults, res)
         /\ UNCHANGED <<bulkFiles, watchVars>>
    ELSE /\ lastResult' = res
         /\ workerPc' = [workerPc EXCEPT ![p] = IF res.status = "error" THEN "idle"
                                                ELSE "loop"]
         /\ UNCHANGED <<bulkVars, pendingFiles, processingQueue, events>>

\* the awaiting caller receives the result: ingestDocuments pushes it,
\* processQueue records it and goes round its loop
Deliver(p, res) ==
    IF p = "bulk"
    THEN /\ bulkResults' = Append(bulkResults, res)
         /\ UNCHANGED <<bulkFiles, watchVars>>
    ELSE /\ lastResult' = res
         /\ workerPc' = [workerPc EXCEPT ![p] = "loop"]
         /\ UNCHANGED <<bulkVars, pendingFiles, processingQueue, events>>

\* pdf(buffer) settles; on success the chunks go to embedBatch
IngestParsed(p, ok) ==
    /\ startupPc # "exit"
    /\ ing[p].pc = "parse"
    /\ IF ok
       THEN /\ QueueEmbeddingTask(p)
            /\ ing' = [ing EXCEPT ![p].pc = "embed"]
            /\ UNCHANGED <<storeVars, bulkVars, watchVars>>
       ELSE /\ LET s == IngestFailure(documents, embeddings, jobs, ing[p], "parse")
               IN  /\ documents' = s.docs
                   /\ embeddings' = s.embs
                   /\ jobs' = s.jobs
            /\ ing' = [ing EXCEPT ![p] = IdleIng]
            /\ Deliver(p, [filename |-> ing[p].filename, status |-> "error",
                           error |-> "parse"])
            /\ UNCHANGED queueVars
    /\ UNCHANGED <<diskVars, warmVars, startupPc, readVars>>
    /\ UNCHANGED <<turnVars, scoreVars, chat, split, startupError>>

\* the embedding request of the ingestion settles and ingestDocument resumes
IngestEmbedded(p, ok) ==
    /\ startupPc # "exit"
    /\ ing[p].pc = "embed"
    /\ embTask[p].state = "running"
    /\ SettleEmbeddingTask(p)
    /\ LET s == IF ok THEN IngestCommit(documents, embeddings, jobs, ing[p])
                ELSE IngestFailure(documents, embeddings, jobs, ing[p], "embedding")
       IN  /\ documents' = s.docs
           /\ embeddings' = s.embs
           /\ jobs' = s.jobs
    /\ ing' = [ing EXCEPT ![p] = IdleIng]
    /\ Deliver(p, IF ok
                  THEN [filename |-> ing[p].filename, status |-> "indexed",
                        error |-> "none"]
                  ELSE [filename |-> ing[p].filename, status |-> "error",
                        error |-> "embedding"])
    /\ UNCHANGED <<diskVars, warmVars, startupPc, readVars>>
    /\ UNCHANGED <<turnVars, scoreVars, chat, split, startupError>>

InFlightIngestions == {p \in Ingesters : ing[p].pc # "none"}

(***************************************************************************)
(* backend/server.js: startup.                                             *)
(***************************************************************************)
\* loadSystemPrompt: readFileSync of the prompt file
StartupLoad(ok) ==
    /\ startupPc = "load"
    /\ startupPc' = IF ok THEN "verify" ELSE "exit"
    /\ startupError' = IF ok THEN NoError ELSE Error("ENOENT", <<>>)
    /\ UNCHANGED <<diskVars, storeVars, queueVars, warmVars, bulkVars, ing, watchVars,
                   readVars>>
    /\ UNCHANGED <<turnVars, scoreVars, chat, split>>

\* The outcomes of client.models.list(): the call fails, or it returns the
\* ids of the loaded models, among them the configured chat model ("chat")
\* and the configured embedding model ("embed") or not.
ModelLists ==
    {[reachable |-> FALSE, models |-> {}]}
        \cup {[reachable |-> TRUE, models |-> ids] : ids \in SUBSET {"chat", "embed"}}

\* the mutant: a missing chat model is tolerated
VerifyErrorChatOptional(res) ==
    IF ~res.reachable THEN Error("LM Studio is not reachable", <<>>)
    ELSE IF "embed" \notin res.models
    THEN Error("Embedding model not found in LM Studio", <<>>)
    ELSE NoError

\* what verifyLMStudio throws on the outcome res of client.models.list()
VerifyError(res) ==
    IF ~res.reachable THEN Error("LM Studio is not reachable", <<>>)
    ELSE IF "chat" \notin res.models
    THEN Error("Chat model not available in LM Studio", <<>>)
    ELSE IF "embed" \notin res.models
    THEN Error("Embedding model not found in LM Studio", <<>>)
    ELSE NoError

\* verifyLMStudio settles; on success warmUpModels starts both probes
StartupVerify(res) ==
    /\ startupPc = "verify"
    /\ IF VerifyError(res) = NoError
       THEN /\ startupPc' = "warmup"
            /\ IF embeddingWarmupPromise = "null"
               THEN /\ QueueEmbeddingTask("warmup")
                    /\ embeddingWarmupPromise' = "pending"
               ELSE UNCHANGED <<queueVars, embeddingWarmupPromise>>
            /\ chatWarmupPromise' =
                   IF chatWarmupPromise = "null" THEN "pending" ELSE chatWarmupPromise
       ELSE /\ startupPc' = "exit"
            /\ UNCHANGED <<queueVars, warmVars>>
    /\ startupError' = VerifyError(res)
    /\ UNCHANGED <<diskVars, storeVars, bulkVars, ing, watchVars, readVars>>
    /\ UNCHANGED <<turnVars, scoreVars, chat, split>>

\* the embedding warm-up probe settles
WarmupEmbedSettle(ok) ==
    /\ startupPc # "exit"
    /\ embTask["warmup"].state = "running"
    /\ SettleEmbeddingTask("warmup")
    /\ embeddingWarmupPromise' = IF ok THEN "fulfilled" ELSE "rejected"
    /\ UNCHANGED <<diskVars, storeVars, chatWarmupPromise, startupPc, bulkVars, ing,
                   watchVars, readVars>>
    /\ UNCHANGED <<turnVars, scoreVars, chat, split, startupError>>

\* the chat warm-up completion settles (it does not go through the queue)
ChatWarmupSettle(ok) ==
    /\ startupPc # "exit"
    /\ chatWarmupPromise = "pending"
    /\ chatWarmupPromise' = IF ok THEN "fulfilled" ELSE "rejected"
    /\ UNCHANGED <<diskVars, storeVars, queueVars, embeddingWarmupPromise, startupPc,
                   bulkVars, ing, watchVars, readVars>>
    /\ UNCHANGED <<turnVars, scoreVars, chat, split, startupError>>

\* readdirSync(filesDir).filter(.pdf)
ScanFiles == SelectSeq(FileOrder, LAMBDA f : disk[f] # Absent)

NoFilesNever(files) == FALSE

\* files.length === 0: ingestDocuments returns [] and startup throws on
\* !results.length
NoFiles(files) == Len(files) = 0

\* Promise.all settles; on success ingestDocuments scans the directory
StartupWarmed ==
    /\ startupPc = "warmup"
    /\ \/ /\ "rejected" \in {embeddingWarmupPromise, chatWarmupPromise}
          /\ startupPc' = "exit"
          /\ startupError' = Error("warmup", <<>>)
          /\ UNCHANGED bulkVars
       \/ /\ embeddingWarmupPromise = "fulfilled"
          /\ chatWarmupPromise = "fulfilled"
          /\ IF NoFiles(ScanFiles)
             THEN /\ startupPc' = "exit"
                  /\ startupError' = Error("No PDFs found", <<>>)
                  /\ bulkFiles' = <<>>
                  /\ bulkResults' = <<>>
             ELSE /\ startupPc' = "bulk"
                  /\ startupError' = NoError
                  /\ bulkFiles' = ScanFiles
                  /\ bulkResults' = <<>>
    /\ UNCHANGED <<diskVars, storeVars, queueVars, warmVars, ing, watchVars, readVars>>
    /\ UNCHANGED <<turnVars, scoreVars, chat, split>>

\* one round of the for loop of ingestDocuments
BulkNext ==
    /\ startupPc = "bulk"
    /\ ing["bulk"].pc = "none"
    /\ bulkFiles # <<>>
    /\ bulkFiles' = Tail(bulkFiles)
    /\ IngestDocumentCall("bulk", Head(bulkFiles))
    /\ bulkResults' = IF IngestOutcome(Head(bulkFiles)) = "started" THEN bulkResults
                      ELSE Append(bulkResults, ImmediateResult(Head(bulkFiles)))
    /\ UNCHANGED <<diskVars, queueVars, warmVars, startupPc, watchVars, readVars>>
    /\ UNCHANGED <<turnVars, scoreVars, chat, split, startupError>>

RECURSIVE Filenames(_)
\* results.map((r) => r.filename)
Filenames(results) ==
    IF results = <<>> THEN <<>>
    ELSE <<Head(results).filename>> \o Filenames(Tail(results))

FailedFilesFirstOnly(results) ==
    LET failed == SelectSeq(results, LAMBDA r : r.status = "error")
    IN IF failed = <<>> THEN <<>> ELSE <<failed[1].filename>>

\* results.filter((r) => r.status === 'error').map((r) => r.filename)
FailedFiles(results) ==
    Filenames(SelectSeq(results, LAMBDA r : r.status = "error"))

\* ingestDocuments returns or throws; startup checks the index, then
\* startFileWatcher() and app.listen()
BulkFinish ==
    /\ startupPc = "bulk"
    /\ ing["bulk"].pc = "none"
    /\ bulkFiles = <<>>
    /\ startupError' =
         IF FailedFiles(bulkResults) # <<>>
         THEN Error("Failed to ingest", FailedFiles(bulkResults))
         ELSE IF Len(GetAllEmbeddings(documents, embeddings)) = 0
         THEN Error("No PDF chunks were embedded", <<>>)
         ELSE NoError
    /\ startupPc' = IF startupError' = NoError THEN "running" ELSE "exit"
    /\ UNCHANGED <<diskVars, storeVars, queueVars, warmVars, bulkVars, ing, watchVars,
                   readVars>>
    /\ UNCHANGED <<turnVars, scoreVars, chat, split>>

(***************************************************************************)
(* backend/server.js: the watcher worker.                                  *)
(***************************************************************************)
\* the mutant: processQueue without its in-flight guard
ProcessQueueBusyIgnored == FALSE

\* if (processingQueue) return;
ProcessQueueBusy == processingQueue

\* the while loop of processQueue, entered by activation w with the pending
\* set `pending` and the flag `flag`
LoopBody(w, pending, flag) ==
    IF pending = <<>>
    THEN /\ processingQueue' = FALSE
         /\ workerPc' = [workerPc EXCEPT ![w] = "idle"]
         /\ pendingFiles' = pending
         /\ UNCHANGED <<storeVars, ing, lastResult>>
    ELSE /\ processingQueue' = flag
         /\ pendingFiles' = Tail(pending)
         /\ IngestDocumentCall(w, Head(pending))
         /\ IF IngestOutcome(Head(pending)) = "started"
            THEN /\ workerPc' = [workerPc EXCEPT ![w] = "await"]
                 /\ UNCHANGED lastResult
            ELSE /\ workerPc' = [workerPc EXCEPT ![w] = "loop"]
                 /\ lastResult' = ImmediateResult(Head(pending))

\* the mutant: the backlog is an array and every event is pushed
AddPendingPushed(name) == Append(pendingFiles, name)

\* pendingFiles.add(path.basename(filename)): a Set keeps the first position
AddPending(name) ==
    IF InSeq(name, pendingFiles) THEN pendingFiles ELSE Append(pendingFiles, name)

\* the watcher's add/change handler
EnqueueFile(name) ==
    /\ startupPc = "running"
    /\ events < MaxEvents
    /\ events' = events + 1
    /\ IF ~IsPdf(name)
       THEN UNCHANGED <<storeVars, ing, pendingFiles, processingQueue, workerPc,
                        lastResult>>
       ELSE IF ProcessQueueBusy
       THEN /\ pendingFiles' = AddPending(name)
            /\ UNCHANGED <<storeVars, ing, processingQueue, workerPc, lastResult>>
       ELSE \E w \in Workers :
              /\ workerPc[w] = "idle"
              /\ \A v \in Workers : workerPc[v] = "idle" => w = "w1" \/ v # "w1"
              /\ LoopBody(w, AddPending(name), TRUE)
    /\ UNCHANGED <<diskVars, queueVars, warmVars, startupPc, bulkVars, readVars>>
    /\ UNCHANGED <<turnVars, scoreVars, chat, split, startupError>>

\* processQueue goes round its loop after an ingestion has ended
WorkerResume(w) ==
    /\ startupPc # "exit"
    /\ workerPc[w] = "loop"
    /\ LoopBody(w, pendingFiles, processingQueue)
    /\ UNCHANGED <<diskVars, queueVars, warmVars, startupPc, bulkVars, events, readVars>>
    /\ UNCHANGED <<turnVars, scoreVars, chat, split, startupError>>

(***************************************************************************)
(* rag/rag.js: retrieveContext, as far as it reads the store and embeds.   *)
(***************************************************************************)
IdleReader == [pc |-> "idle", rows |-> <<>>]

\* rows = getAllEmbeddings(db); empty: return; else embedBatch(client, [query]).
\* A request takes the first free slot (the slots are interchangeable).
RetrieveCall(r) ==
    /\ startupPc = "running"
    /\ reader[r].pc = "idle"
    /\ \A q \in Readers : reader[q].pc = "idle" => r = "r1" \/ q # "r1"
    /\ retrievals < MaxRetrievals
    /\ retrievals' = retrievals + 1
    /\ LET rows == GetAllEmbeddings(documents, embeddings)
       IN  IF rows = <<>>
           THEN /\ reader' = [reader EXCEPT ![r] = IdleReader]
                /\ UNCHANGED queueVars
           ELSE /\ reader' = [reader EXCEPT ![r] = [pc |-> "embed", rows |-> rows]]
                /\ QueueEmbeddingTask(r)
    /\ UNCHANGED <<diskVars, storeVars, warmVars, startupPc, bulkVars, ing, watchVars>>
    /\ UNCHANGED <<turnVars, scoreVars, chat, split, startupError>>

\* the query embedding settles and retrieveContext returns or throws
RetrieveEmbedded(r, ok) ==
    /\ startupPc # "exit"
    /\ reader[r].pc = "embed"
    /\ embTask[r].state = "running"
    /\ SettleEmbeddingTask(r)
    /\ reader' = [reader EXCEPT ![r] = IdleReader]
    /\ UNCHANGED <<diskVars, storeVars, warmVars, startupPc, bulkVars, ing, watchVars,
                   retrievals>>
    /\ UNCHANGED <<turnVars, scoreVars, chat, split, startupError>>

(***************************************************************************)
(* The environment: the knowledge-base directory changes.                  *)
(***************************************************************************)
\* the files that are rewritten or removed while the process runs; the other
\* file keeps its initial state (present or missing)
ChangingFiles == {"a.pdf"}

\* A change made before the startup scan is the same as another initial
\* directory, so changes are taken from the scan on.
WriteFile(f, h) ==
    /\ startupPc \in {"bulk", "running"}
    /\ writes < MaxWrites
    /\ writes' = writes + 1
    /\ disk' = [disk EXCEPT ![f] = [hash |-> h, mtime |-> writes + 2]]
    /\ UNCHANGED <<storeVars, queueVars, warmVars, startupPc, bulkVars, ing, watchVars,
                   readVars>>
    /\ UNCHANGED <<turnVars, scoreVars, chat, split, startupError>>

DeleteFile(f) ==
    /\ startupPc \in {"bulk", "running"}
    /\ writes < MaxWrites
    /\ disk[f] # Absent
    /\ writes' = writes + 1
    /\ disk' = [disk EXCEPT ![f] = Absent]
    /\ UNCHANGED <<storeVars, queueVars, warmVars, startupPc, bulkVars, ing, watchVars,
                   readVars>>
    /\ UNCHANGED <<turnVars, scoreVars, chat, split, startupError>>

(***************************************************************************)
(* The system.                                                             *)
(***************************************************************************)
\* the store a previous run left behind: nothing, or a.pdf indexed
\* ---------------------------------------------------------------------------
\* The chat turn: POST /api/chat in its streaming form (backend/server.js) and
\* in its blocking form (the server text in backend/db.js).
\* ---------------------------------------------------------------------------

MaxTurns == 1

MaxStreamTokens == 2

TOKEN_ESTIMATE_DIVISOR == 4

CONTEXT_TOKEN_BUDGET == 20000

PROMPT_TOKEN_BUDGET == 30000

MAX_COMPLETION_ATTEMPTS == 2

MIN_RETRY_TOKEN_BUFFER == 1024

MIN_RETRY_TOKEN_BUFFER_BLOCKING == 512

MAX_HISTORY_MESSAGES == 6

DEFAULT_OUTPUT_TOKENS == 4096

MinCompletionTokens == 1024

TopK == 2

Min(a, b) == IF a <= b THEN a ELSE b

Max(a, b) == IF a >= b THEN a ELSE b

\* CONFIG.outputTokenCap for MAX_OUTPUT_TOKENS unset or 100, and for 16384.
OutputTokenCaps == {Max(DEFAULT_OUTPUT_TOKENS, n) : n \in {100, 4096, 16384}}

\* Lengths of SystemPromt.txt: a short prompt and a very long one.
SystemPromptLens == {2000, 78000}

\* Text is a sequence of characters; "a" stands for any visible character
\* and " " for any white space.
Chars == {"a", " "}

Texts == UNION {[1..n -> Chars] : n \in 0..MaxStreamTokens}

RECURSIVE TrimStart(_)
TrimStart(s) == IF s # <<>> /\ Head(s) = " " THEN TrimStart(Tail(s)) ELSE s

RECURSIVE TrimEnd(_)
TrimEnd(s) ==
    IF s # <<>> /\ s[Len(s)] = " " THEN TrimEnd(SubSeq(s, 1, Len(s) - 1)) ELSE s

Trim(s) == TrimEnd(TrimStart(s))

EstimateTokens(len) ==
    IF len = 0 THEN 0
    ELSE (len + TOKEN_ESTIMATE_DIVISOR - 1) \div TOKEN_ESTIMATE_DIVISOR

\* A message content: the text produced by the model is kept character by
\* character, every other text by what it is, its language and its length.
Reply(text) == [kind |-> "reply", text |-> text, len |-> Len(text), lang |-> "-"]

EmptyContent == Reply(<<>>)

FixedLen(kind, lang) ==
    CASE kind = "safety" -> 199
      [] kind = "language" -> IF lang = "zh" THEN 41 ELSE 101
      [] kind = "greeting" -> IF lang = "zh" THEN 20 ELSE 32
      [] kind = "no_context" -> IF lang = "zh" THEN 60 ELSE 199
      [] kind = "fallback" -> IF lang = "zh" THEN 45 ELSE 150

Fixed(kind, lang) ==
    [kind |-> kind, text |-> <<>>, len |-> FixedLen(kind, lang), lang |-> lang]

BuildFallbackReplyEnglish(lang) == Fixed("fallback", "en")

BuildFallbackReply(lang) == Fixed("fallback", lang)

\* Characters of a request body are one-character strings; a character
\* outside ASCII is written by its code point.
Ideographs == {"U+4F60", "U+597D", "U+60A8", "U+5417"}

\* /[^\x00-\x7F]/: the ideographs and the full-width marks
NonAscii == Ideographs \cup {"U+3002", "U+FF01", "U+FF1F"}

\* /[!,.。！？]/g
GreetingPunctuation == {"!", ",", ".", "U+3002", "U+FF01", "U+FF1F"}

\* ['hi', 'hello', 'hey', 'hola', '你好', '您好']
Greetings ==
    { <<"h", "i">>, <<"h", "e", "l", "l", "o">>, <<"h", "e", "y">>,
      <<"h", "o", "l", "a">>, <<"U+4F60", "U+597D">>, <<"U+60A8", "U+597D">> }

\* toLowerCase, on the capitals that occur in the request bodies
LowerCaseOf(c) ==
    CASE c = "H" -> "h"
      [] c = "E" -> "e"
      [] c = "L" -> "l"
      [] c = "O" -> "o"
      [] c = "I" -> "i"
      [] OTHER -> c

ToLowerCase(text) == [i \in 1..Len(text) |-> LowerCaseOf(text[i])]

\* .replace(/[!,.。！？]/g, '')
StripPunctuation(text) == SelectSeq(text, LAMBDA c : c \notin GreetingPunctuation)

\* A request body: its leading characters and the number of further plain
\* lower-case letters that follow them.
MessageLength(m) == Len(m.text) + m.pad

\* the mutant: the body is compared without toLowerCase
IsGreetingCaseSensitive(m) ==
    /\ m.pad = 0
    /\ StripPunctuation(Trim(m.text)) \in Greetings

\* isGreeting(text): text.trim().toLowerCase().replace(...) is a greeting
\* (a body with further letters is longer than every greeting)
IsGreeting(m) ==
    /\ m.pad = 0
    /\ StripPunctuation(ToLowerCase(Trim(m.text))) \in Greetings

\* detectLanguage(text)
DetectLanguage(m) ==
    IF (\E i \in 1..Len(m.text) : m.text[i] \in NonAscii)
       /\ (\E i \in 1..Len(m.text) : m.text[i] \in Ideographs)
    THEN "zh" ELSE "en"

\* The request bodies: "Hello!", " 你好！", "hola ?" (a question mark is not
\* stripped), a question in either language, and two very long questions.
UserMessages ==
    { [text |-> <<"H", "e", "l", "l", "o", "!">>, pad |-> 0],
      [text |-> <<" ", "U+4F60", "U+597D", "U+FF01">>, pad |-> 0],
      [text |-> <<"h", "o", "l", "a", " ", "?">>, pad |-> 34],
      [text |-> <<"U+4F60", "U+597D", "U+5417">>, pad |-> 9],
      [text |-> <<"w", "h", "y", " ">>, pad |-> 37996],
      [text |-> <<"w", "h", "y", " ">>, pad |-> 41996] }

NoUser == [id |-> 0, lang |-> "en"]

UserContent(m) ==
    [kind |-> "user", text |-> <<>>, len |-> MessageLength(m), lang |-> DetectLanguage(m)]

AddMessage(msgs, role, content) ==
    Append(msgs, [id |-> Len(msgs) + 1, role |-> role, content |-> content])

LogInteractionDropped(ints, userId, aiId, sources) == ints

LogInteraction(ints, userId, aiId, sources) ==
    Append(ints, [user_message_id |-> userId, ai_message_id |-> aiId,
                  rag_sources |-> sources])

PushToken(streamed, token) ==
    IF token.len = 0 THEN streamed
    ELSE IF streamed.len = 0 THEN token
    ELSE [kind |-> "reply", text |-> streamed.text \o token.text,
          len |-> streamed.len + token.len, lang |-> "-"]

GetTrimmedHistory(msgs) ==
    IF Len(msgs) <= MAX_HISTORY_MESSAGES THEN msgs
    ELSE SubSeq(msgs, Len(msgs) - MAX_HISTORY_MESSAGES + 1, Len(msgs))

RECURSIVE SumTokens(_)
SumTokens(lens) ==
    IF lens = <<>> THEN 0 ELSE EstimateTokens(Head(lens)) + SumTokens(Tail(lens))

SystemTokens(lang) ==
    EstimateTokens(systemPromptLen) + EstimateTokens(FixedLen("safety", lang))
        + EstimateTokens(FixedLen("language", lang)) + 50

ConversationTokens(history) ==
    SumTokens([i \in 1..Len(history) |-> history[i].content.len])

\* What retrieveContext resolves to: the lengths of the chunk texts, best
\* first ("Source: a.pdf [chunk 0]" and a line break before at most 800
\* characters of text).
RetrievedContexts == {SubSeq(<<824, 820>>, 1, n) : n \in 0..TopK}

ComputeReserved(lang, history, contextMsgs) ==
    SystemTokens(lang) + ConversationTokens(history) + SumTokens(contextMsgs)

RECURSIVE TrimToBudgetFromFront(_, _, _)
TrimToBudgetFromFront(lang, history, selected) ==
    IF ComputeReserved(lang, history, selected) > CONTEXT_TOKEN_BUDGET
       /\ Len(selected) > 0
    THEN TrimToBudgetFromFront(lang, history, Tail(selected))
    ELSE selected

RECURSIVE TrimToBudget(_, _, _)
TrimToBudget(lang, history, selected) ==
    IF ComputeReserved(lang, history, selected) > CONTEXT_TOKEN_BUDGET
       /\ Len(selected) > 0
    THEN TrimToBudget(lang, history, SubSeq(selected, 1, Len(selected) - 1))
    ELSE selected

\* ---- the orchestrators ----

FinishReasons == {"null", "stop", "length"}

AnalyzeCompletionMissingFinishAccepted(completion) ==
    LET content == Trim(completion.text)
    IN [content |-> content, finishReason |-> completion.finish,
        invalid |-> content = <<>>
                    \/ (completion.finish # "null" /\ completion.finish # "stop")]

AnalyzeCompletion(completion) ==
    LET finishReason == completion.finish
        content == Trim(completion.text)
        hasContent == content # <<>>
        invalidFinishReason == finishReason # "null" /\ finishReason # "stop"
        missingFinishReason == finishReason = "null"
    IN [content |-> content, finishReason |-> finishReason,
        invalid |-> ~hasContent \/ invalidFinishReason \/ missingFinishReason]

NextMaxTokensUncapped(tokens, buffer) == Max(tokens * 2, tokens + buffer)

NextMaxTokens(tokens, buffer) ==
    Min(outputTokenCap, Max(tokens * 2, tokens + buffer))

AttemptsExhaustedLate(n) == n > MAX_COMPLETION_ATTEMPTS

AttemptsExhausted(n) == n >= MAX_COMPLETION_ATTEMPTS

StreamAcceptsVisibleOnly(text) == \E i \in 1..Len(text) : text[i] # " "

\* if (collected.length > 0) after the stream has ended
StreamAccepts(text) == Len(text) > 0

KeepsPartialNever(text) == FALSE

KeepsPartial(text) == Len(text) > 0

RetryBuffer ==
    IF variant = "stream" THEN MIN_RETRY_TOKEN_BUFFER ELSE MIN_RETRY_TOKEN_BUFFER_BLOCKING

NoResponse ==
    [type |-> "none", finishReason |-> "none", interrupted |-> FALSE,
     message |-> EmptyContent, sources |-> 0]

NoPrompt == [context |-> <<>>, history |-> <<>>, note |-> FALSE]

\* buildMessages(context, history, language, ragNote): the preamble and the
\* instructions are fixed texts; what varies is the context block, the
\* history rows and, in the blocking form, the notice of missing context.
BuildMessages(context, history, ragNote) ==
    [context |-> context, history |-> [i \in 1..Len(history) |-> history[i].id],
     note |-> ragNote]

\* addMessage(assistant), logInteraction and the answer that ends the turn.
Answer(type, content, sources, finishReason, interrupted) ==
    /\ messages' = AddMessage(messages, "assistant", content)
    /\ interactions' = LogInteraction(interactions, user.id, Len(messages) + 1, sources)
    /\ response' = [type |-> type, finishReason |-> finishReason,
                    interrupted |-> interrupted, message |-> content,
                    sources |-> sources]
    /\ turnPc' = "idle"

\* chat.completions.create({max_tokens: tokens}) of a new attempt.
CreateCompletion(tokens) ==
    /\ maxTokens' = tokens
    /\ collected' = <<>>
    /\ lastFinishReason' = "null"
    /\ requests' = Append(requests, tokens)

\* The orchestrator has returned or thrown: its locals are gone.
OrchestratorEnds ==
    /\ attempt' = 0
    /\ maxTokens' = 0
    /\ lastError' = "null"
    /\ collected' = <<>>
    /\ lastFinishReason' = "null"

\* The catch block of the streaming handler.
StreamHandlerCatch(err) ==
    LET fallbackReply == IF streamedText.len = 0 THEN BuildFallbackReply(user.lang)
                         ELSE streamedText
    IN /\ streamedText' = IF streamedText.len = 0
                          THEN PushToken(streamedText, fallbackReply)
                          ELSE streamedText
       /\ Answer("chat_fallback", fallbackReply, 0, "fallback", FALSE)
       /\ caught' = err

\* The catch block of the blocking handler.
BlockHandlerCatch(err) ==
    /\ Answer("chat_fallback", BuildFallbackReply(user.lang), Len(kept), "fallback", FALSE)
    /\ caught' = err
    /\ UNCHANGED streamedText

\* The end of one failed attempt: the next attempt or the raised error.
Retry(error) ==
    /\ IF AttemptsExhausted(attempt + 1)
       THEN /\ open' = open - 1
            /\ OrchestratorEnds
            /\ UNCHANGED requests
            /\ IF variant = "stream" THEN StreamHandlerCatch(error)
               ELSE BlockHandlerCatch(error)
       ELSE /\ lastError' = error
            /\ attempt' = attempt + 1
            /\ CreateCompletion(NextMaxTokens(maxTokens, RetryBuffer))
            /\ open' = (open - 1) + 1
            /\ UNCHANGED <<logVars, response, turnPc, streamedText, caught>>
    /\ UNCHANGED prompt

\* The streaming handler after streamCompletionWithRecovery has returned.
StreamReturns(replyText, finishReason, interrupted) ==
    LET finalReply == IF replyText # <<>> /\ Len(Trim(replyText)) > 0
                      THEN Reply(replyText) ELSE streamedText
    IN /\ Answer("chat_success", finalReply, Len(kept),
                 IF finishReason = "null" THEN "streamed" ELSE finishReason,
                 interrupted)
       /\ open' = open - 1
       /\ OrchestratorEnds
       /\ UNCHANGED <<streamedText, requests, caught, prompt>>

\* The blocking handler after generateCompletionWithRecovery has returned.
BlockReturns(replyText, finishReason) ==
    LET finalReply == IF replyText # <<>> /\ Len(Trim(replyText)) > 0
                      THEN Reply(Trim(replyText)) ELSE BuildFallbackReply(user.lang)
    IN /\ Answer("chat_success", finalReply, Len(kept),
                 IF finishReason = "null" THEN "stop" ELSE finishReason, FALSE)
       /\ open' = open - 1
       /\ OrchestratorEnds
       /\ UNCHANGED <<streamedText, requests, caught, prompt>>

\* POST /api/chat up to the greeting answer or the call of retrieveContext.
ChatRequest(m) ==
    /\ turnPc = "idle"
    /\ turns < MaxTurns
    /\ turns' = turns + 1
    /\ user' = [id |-> Len(messages) + 1, lang |-> DetectLanguage(m)]
    /\ requests' = <<>>
    /\ LET msgs == AddMessage(messages, "user", UserContent(m))
           greetingReply == Fixed("greeting", DetectLanguage(m))
       IN IF IsGreeting(m)
          THEN /\ messages' = AddMessage(msgs, "assistant", greetingReply)
               /\ interactions' =
                      LogInteraction(interactions, Len(msgs), Len(msgs) + 1, 0)
               /\ streamedText' = IF variant = "stream"
                                  THEN PushToken(EmptyContent, greetingReply)
                                  ELSE EmptyContent
               /\ response' = [type |-> "greeting", finishReason |-> "greeting",
                               interrupted |-> FALSE, message |-> greetingReply,
                               sources |-> 0]
               /\ turnPc' = "idle"
          ELSE /\ messages' = msgs
               /\ streamedText' = EmptyContent
               /\ response' = NoResponse
               /\ turnPc' = "retrieve"
               /\ UNCHANGED interactions
    /\ caught' = "null"
    /\ prompt' = NoPrompt
    /\ UNCHANGED <<ragVars, scoreVars, chat, split, configVars, kept, orchVars, open>>

InsufficientGenerationNever(remaining) == FALSE

\* if (remainingForGeneration < CONFIG.minCompletionTokens) throw
InsufficientGeneration(remaining) == remaining < MinCompletionTokens

\* if (reservedTokens >= PROMPT_TOKEN_BUDGET) throw
InsufficientWindow(reserved) == reserved >= PROMPT_TOKEN_BUDGET

MaxGenerationTokensUncapped(remaining) == remaining

\* Math.min(CONFIG.outputTokenCap, remainingForGeneration)
MaxGenerationTokens(remaining) == Min(outputTokenCap, remaining)

NoSelectedContextNever(selectedContext) == FALSE

\* if (selectedContext.length === 0)
NoSelectedContext(selectedContext) == Len(selectedContext) = 0

\* The streaming handler from the result of retrieveContext to the first
\* completion request, the no_context answer or the budget error.
StreamBudget(contextChunks) ==
    LET history == GetTrimmedHistory(messages)
        selectedContext == TrimToBudget(user.lang, history, contextChunks)
        reservedTokens == ComputeReserved(user.lang, history, selectedContext)
        remainingForGeneration == PROMPT_TOKEN_BUDGET - reservedTokens
        maxGenerationTokens == MaxGenerationTokens(remainingForGeneration)
    IN /\ kept' = selectedContext
       /\ IF InsufficientWindow(reservedTokens)
          THEN /\ StreamHandlerCatch("Insufficient context window")
               /\ UNCHANGED <<orchVars, requests, open, prompt>>
          ELSE IF InsufficientGeneration(remainingForGeneration)
          THEN /\ StreamHandlerCatch("Insufficient tokens available for generation")
               /\ UNCHANGED <<orchVars, requests, open, prompt>>
          ELSE IF NoSelectedContext(selectedContext)
          THEN /\ messages' = AddMessage(messages, "assistant",
                                         Fixed("no_context", user.lang))
               /\ interactions' =
                      LogInteraction(interactions, user.id, Len(messages) + 1, 0)
               /\ streamedText' =
                      PushToken(streamedText, Fixed("no_context", user.lang))
               /\ response' = [type |-> "no_context", finishReason |-> "no_context",
                               interrupted |-> FALSE,
                               message |-> Fixed("no_context", user.lang),
                               sources |-> 0]
               /\ turnPc' = "idle"
               /\ UNCHANGED <<orchVars, requests, open, caught, prompt>>
          ELSE /\ attempt' = 0
               /\ lastError' = "null"
               /\ prompt' = BuildMessages(selectedContext, history, FALSE)
               /\ CreateCompletion(maxGenerationTokens)
               /\ open' = open + 1
               /\ turnPc' = "stream"
               /\ UNCHANGED <<logVars, response, streamedText, caught>>

\* The blocking handler from the result of retrieveContext to the first
\* completion request.
BlockPrompt(contextChunks) ==
    /\ kept' = SubSeq(contextChunks, 1, Min(TopK, Len(contextChunks)))
    /\ attempt' = 0
    /\ lastError' = "null"
    /\ prompt' = BuildMessages(SubSeq(contextChunks, 1, Min(TopK, Len(contextChunks))),
                               GetTrimmedHistory(messages), Len(contextChunks) = 0)
    /\ CreateCompletion(outputTokenCap)
    /\ open' = open + 1
    /\ turnPc' = "block"
    /\ UNCHANGED <<logVars, response, streamedText, caught>>

RetrieveContextResolves(contextChunks) ==
    /\ turnPc = "retrieve"
    /\ IF variant = "stream" THEN StreamBudget(contextChunks)
       ELSE BlockPrompt(contextChunks)
    /\ UNCHANGED <<ragVars, scoreVars, chat, split, configVars, turns, user>>

RetrieveContextRejects ==
    /\ turnPc = "retrieve"
    /\ IF variant = "stream"
       THEN /\ StreamHandlerCatch("Embedding request failed")
            /\ UNCHANGED <<kept, orchVars, requests, open, prompt>>
       ELSE BlockPrompt(<<>>)
    /\ UNCHANGED <<ragVars, scoreVars, chat, split, configVars, turns, user>>

\* One part of the stream: a delta (possibly empty) and a finish reason
\* (possibly none).
StreamPart(delta, finishReason) ==
    /\ turnPc = "stream"
    /\ Len(collected) + Len(delta) <= MaxStreamTokens
    /\ collected' = collected \o delta
    /\ streamedText' = PushToken(streamedText, Reply(delta))
    /\ lastFinishReason' = IF finishReason # "null" THEN finishReason
                           ELSE lastFinishReason
    /\ UNCHANGED <<ragVars, scoreVars, chat, split, configVars, logVars, turnPc, turns, user, kept, attempt,
                   maxTokens, lastError, requests, open, response, caught, prompt>>

\* The stream ends without an error.
StreamEnds ==
    /\ turnPc = "stream"
    /\ IF StreamAccepts(collected)
       THEN StreamReturns(collected, lastFinishReason, FALSE)
       ELSE Retry("Stream returned no tokens")
    /\ UNCHANGED <<ragVars, scoreVars, chat, split, configVars, turns, user, kept>>

\* The request or the iteration of the stream throws.
StreamThrows ==
    /\ turnPc = "stream"
    /\ IF KeepsPartial(collected)
       THEN StreamReturns(collected, "error", TRUE)
       ELSE Retry("request error")
    /\ UNCHANGED <<ragVars, scoreVars, chat, split, configVars, turns, user, kept>>

\* What a blocking completion request can come back with: a thrown error, a
\* body without choices, or a first choice with its finish reason and text.
Completions ==
    [ok : {FALSE}, choices : {0}, finish : {"null"}, text : {<<>>}]
        \cup [ok : {TRUE}, choices : {0}, finish : {"null"}, text : {<<>>}]
        \cup [ok : {TRUE}, choices : {1}, finish : FinishReasons, text : Texts]

CompletionSettles(completion) ==
    /\ turnPc = "block"
    /\ IF ~completion.ok THEN Retry("request error")
       ELSE IF completion.choices = 0 THEN Retry("LM Studio returned no choices")
       ELSE LET analysis == AnalyzeCompletion(completion)
            IN IF ~analysis.invalid
               THEN BlockReturns(analysis.content, analysis.finishReason)
               ELSE Retry("LLM returned an invalid response")
    /\ UNCHANGED <<ragVars, scoreVars, chat, split, configVars, turns, user, kept>>

\* ---------------------------------------------------------------------------
\* rag/rag.js: retrieveContext, with its result.
\* ---------------------------------------------------------------------------

MaxRows == 3

\* Similarities of a query to the stored rows, as ranks: a higher number is
\* a higher cosine similarity.
Scores == {1, 2, 3}

\* CONFIG.retrieval.minScore: CONFIG.retrieval has the keys chunkSize,
\* chunkOverlap and topK only, so the value is undefined; the set of
\* configured thresholds is empty.
MinScore == {}

\* item.score >= CONFIG.retrieval.minScore (false against undefined)
PassesMinScore(item) == \E threshold \in MinScore : item.score >= threshold

\* rows.map(...): every row with its similarity to the query
Scored(rows, sims) ==
    [i \in 1..Len(rows) |->
        [score |-> sims[i], filename |-> rows[i].filename,
         chunkIndex |-> rows[i].chunk_index, text |-> rows[i].text]]

\* One step of a stable sort by (a, b) => b.score - a.score: item goes behind
\* the items that score at least as much.
InsertByScore(sorted, item) ==
    LET k == Cardinality({i \in 1..Len(sorted) : sorted[i].score >= item.score})
    IN SubSeq(sorted, 1, k) \o <<item>> \o SubSeq(sorted, k + 1, Len(sorted))

RECURSIVE SortByScore(_)
SortByScore(items) ==
    IF items = <<>> THEN <<>>
    ELSE InsertByScore(SortByScore(SubSeq(items, 1, Len(items) - 1)),
                       items[Len(items)])

\* scored.sort(...).slice(0, CONFIG.retrieval.topK)
Top(rows, sims) ==
    LET sorted == SortByScore(Scored(rows, sims))
    IN SubSeq(sorted, 1, Min(TopK, Len(sorted)))

TopScoreOfKept(top) ==
    LET filtered == SelectSeq(top, PassesMinScore)
    IN IF filtered # <<>> THEN <<filtered[1].score>> ELSE <<>>

\* top.length ? top[0].score : null (null is the empty sequence)
TopScore(top) == IF top # <<>> THEN <<top[1].score>> ELSE <<>>

ContextChunk(item) ==
    [text |-> <<"Source", item.filename, item.chunkIndex, item.text>>,
     filename |-> item.filename, chunkIndex |-> item.chunkIndex,
     score |-> item.score]

RetrieveContextUnranked(rows, sims) ==
    LET scored == Scored(rows, sims)
    IN [contextChunks |-> [i \in 1..Len(scored) |-> ContextChunk(scored[i])],
        sources |-> scored,
        maxScore |-> TopScore(scored)]

\* retrieveContext after the query embedding has arrived
RetrieveContext(rows, sims) ==
    LET top == Top(rows, sims)
        filtered == SelectSeq(top, PassesMinScore)
    IN [contextChunks |-> [i \in 1..Len(filtered) |-> ContextChunk(filtered[i])],
        sources |-> filtered,
        maxScore |-> TopScore(top)]

\* { contextChunks: [], sources: [], maxScore: null }
EmptyRetrieval == [contextChunks |-> <<>>, sources |-> <<>>, maxScore |-> <<>>]

NoRetrieval == [pc |-> "idle", rows |-> <<>>, result |-> EmptyRetrieval]

NoRowsNever(rows) == FALSE

\* if (!rows.length)
NoRows(rows) == Len(rows) = 0

\* retrieveContext up to its await: the rows are read; without rows it
\* returns at once, otherwise the query embedding is queued.
RetrieveContextCall ==
    /\ startupPc = "running"
    /\ retrieval.pc = "idle"
    /\ LET rows == GetAllEmbeddings(documents, embeddings)
       IN IF NoRows(rows)
          THEN /\ retrieval' = [pc |-> "returned", rows |-> rows,
                                result |-> EmptyRetrieval]
               /\ UNCHANGED queueVars
          ELSE /\ retrieval' = [pc |-> "embed", rows |-> rows,
                                result |-> EmptyRetrieval]
               /\ QueueEmbeddingTask("r1")
    /\ UNCHANGED <<diskVars, storeVars, warmVars, startupPc, bulkVars, ing, watchVars,
                   readVars, turnVars, similarity, startupError, chat, split>>

\* the query embedding settles: retrieveContext returns its result or throws
RetrieveContextSettles(ok) ==
    /\ retrieval.pc = "embed"
    /\ embTask["r1"].state = "running"
    /\ SettleEmbeddingTask("r1")
    /\ retrieval' = IF ok
                    THEN [retrieval EXCEPT !.pc = "returned",
                             !.result = RetrieveContext(retrieval.rows, similarity)]
                    ELSE [retrieval EXCEPT !.pc = "thrown"]
    /\ UNCHANGED <<diskVars, storeVars, warmVars, startupPc, bulkVars, ing, watchVars,
                   readVars, turnVars, similarity, startupError, chat, split>>

(***************************************************************************)
(* rag/rag.js: splitText, one step per turn of its loop.                   *)
(***************************************************************************)
MaxTextLen == 6

MaxChunkSize == 4

\* the extracted texts, the chunk sizes C and the overlaps O with 0 <= O < C
SplitTexts == UNION {[1..n -> Chars] : n \in 0..MaxTextLen}

NoSplit ==
    [pc |-> "idle", text |-> <<>>, chunkSize |-> 1, chunkOverlap |-> 0, start |-> 0,
     chunks |-> <<>>, windows |-> <<>>]

\* text.slice(start, end) with 0 <= start <= end <= text.length
Slice(text, start, end) == SubSeq(text, start + 1, end)

\* the mutant: start += chunkSize
NextStartNoOverlap(start, chunkSize, chunkOverlap) == start + chunkSize

\* start += chunkSize - chunkOverlap
NextStart(start, chunkSize, chunkOverlap) == start + chunkSize - chunkOverlap

\* const chunks = []; let start = 0
SplitTextCall(text, chunkSize, chunkOverlap) ==
    [pc |-> "loop", text |-> text, chunkSize |-> chunkSize,
     chunkOverlap |-> chunkOverlap, start |-> 0, chunks |-> <<>>, windows |-> <<>>]

\* one turn of the while loop; `windows` records the bounds of the slices taken
SplitTextLoop ==
    /\ split.pc = "loop"
    /\ split.start < Len(split.text)
    /\ LET end == Min(Len(split.text), split.start + split.chunkSize)
           chunk == Trim(Slice(split.text, split.start, end))
       IN split' = [split EXCEPT
                      !.chunks = IF Len(chunk) > 0 THEN Append(@, chunk) ELSE @,
                      !.windows = Append(@, [start |-> split.start, end |-> end]),
                      !.start = NextStart(@, split.chunkSize, split.chunkOverlap)]
    /\ UNCHANGED <<ragVars, turnVars, scoreVars, chat>>

\* the loop test fails: return chunks
SplitTextReturn ==
    /\ split.pc = "loop"
    /\ ~(split.start < Len(split.text))
    /\ split' = [split EXCEPT !.pc = "returned"]
    /\ UNCHANGED <<ragVars, turnVars, scoreVars, chat>>

(***************************************************************************)
(* backend/server.js: chat requests in flight at the same time.  Each      *)
(* handler runs to its first await, and the handlers interleave at the     *)
(* awaits: retrieveContext and streamCompletionWithRecovery.                *)
(***************************************************************************)
MaxChats == 2

\* the handler activations, in the order the requests arrive
ChatTurns == 1..MaxChats

\* the conversation tokens of the request bodies
ConversationIds == {"c1", "c2"}

\* the request bodies of concurrent turns: the short ones
ChatMessages == {m \in UserMessages : m.pad < 100}

NoChat ==
    [pc |-> "none", token |-> "none", userMessage |-> 0, aiMessage |-> 0,
     lang |-> "en", prompt |-> NoPrompt]

\* addMessage(db, conversationId, role, content): the row gets the next id
\* of the table, whatever its conversation
AddMessageIn(msgs, conversationId, role, content) ==
    Append(msgs, [id |-> Len(msgs) + 1, conversation_id |-> conversationId,
                  role |-> role, content |-> content])

\* SELECT ... FROM messages WHERE conversation_id = ? ORDER BY id ASC
ListMessages(msgs, conversationId) ==
    SelectSeq(msgs, LAMBDA x : x.conversation_id = conversationId)

\* the mutant: the interaction links the row written just before the reply
LogInteractionInPrevious(ints, conversationId, userId, aiId) ==
    Append(ints, [conversation_id |-> conversationId, user_message_id |-> aiId - 1,
                  ai_message_id |-> aiId])

\* logInteraction(db, conversationId, userMessageId, aiMessageId, metadata)
LogInteractionIn(ints, conversationId, userId, aiId) ==
    Append(ints, [conversation_id |-> conversationId, user_message_id |-> userId,
                  ai_message_id |-> aiId])

\* aiMessage = addMessage(db, token, 'assistant', reply);
\* logInteraction(db, token, userMessage.id, aiMessage.id, ...); the stream ends
ChatAnswer(h, content) ==
    /\ messages' = AddMessageIn(messages, chat[h].token, "assistant", content)
    /\ interactions' = LogInteractionIn(interactions, chat[h].token, chat[h].userMessage,
                                        Len(messages) + 1)
    /\ chat' = [chat EXCEPT ![h].pc = "done", ![h].aiMessage = Len(messages) + 1]

\* POST /api/chat up to the greeting answer or the call of retrieveContext
ChatArrives(h, token, m) ==
    /\ startupPc = "running"
    /\ chat[h].pc = "none"
    /\ \A g \in ChatTurns : g < h => chat[g].pc # "none"
    /\ LET msgs == AddMessageIn(messages, token, "user", UserContent(m))
           language == DetectLanguage(m)
       IN IF IsGreeting(m)
          THEN /\ messages' = AddMessageIn(msgs, token, "assistant",
                                           Fixed("greeting", language))
               /\ interactions' = LogInteractionIn(interactions, token, Len(msgs),
                                                   Len(msgs) + 1)
               /\ chat' = [chat EXCEPT ![h] =
                             [pc |-> "done", token |-> token, userMessage |-> Len(msgs),
                              aiMessage |-> Len(msgs) + 1, lang |-> language,
                              prompt |-> NoPrompt]]
          ELSE /\ messages' = msgs
               /\ chat' = [chat EXCEPT ![h] =
                             [pc |-> "retrieve", token |-> token,
                              userMessage |-> Len(msgs), aiMessage |-> 0,
                              lang |-> language, prompt |-> NoPrompt]]
               /\ UNCHANGED interactions
    /\ UNCHANGED <<ragVars, scoreVars, configVars, turnPc, turns, user, streamedText, kept,
                   orchVars, requests, open, response, caught, prompt, split>>

\* retrieveContext has resolved: the history is read, the budget is computed,
\* and the handler answers or builds the prompt and calls the endpoint
ChatRetrieved(h, contextChunks) ==
    /\ chat[h].pc = "retrieve"
    /\ LET historyMessages == GetTrimmedHistory(ListMessages(messages, chat[h].token))
           selectedContext == TrimToBudget(chat[h].lang, historyMessages, contextChunks)
           reservedTokens == ComputeReserved(chat[h].lang, historyMessages, selectedContext)
           remainingForGeneration == PROMPT_TOKEN_BUDGET - reservedTokens
       IN IF InsufficientWindow(reservedTokens)
             \/ InsufficientGeneration(remainingForGeneration)
          THEN ChatAnswer(h, BuildFallbackReply(chat[h].lang))
          ELSE IF NoSelectedContext(selectedContext)
          THEN ChatAnswer(h, Fixed("no_context", chat[h].lang))
          ELSE /\ chat' = [chat EXCEPT ![h].pc = "complete",
                              ![h].prompt = BuildMessages(selectedContext,
                                                          historyMessages, FALSE)]
               /\ UNCHANGED logVars
    /\ UNCHANGED <<ragVars, scoreVars, configVars, turnPc, turns, user, streamedText, kept,
                   orchVars, requests, open, response, caught, prompt, split>>

\* retrieveContext has rejected: the catch block answers
ChatRetrievalFails(h) ==
    /\ chat[h].pc = "retrieve"
    /\ ChatAnswer(h, BuildFallbackReply(chat[h].lang))
    /\ UNCHANGED <<ragVars, scoreVars, configVars, turnPc, turns, user, streamedText, kept,
                   orchVars, requests, open, response, caught, prompt, split>>

\* streamCompletionWithRecovery has returned its reply or thrown
ChatCompleted(h, ok) ==
    /\ chat[h].pc = "complete"
    /\ ChatAnswer(h, IF ok THEN Reply(<<"a">>) ELSE BuildFallbackReply(chat[h].lang))
    /\ UNCHANGED <<ragVars, scoreVars, configVars, turnPc, turns, user, streamedText, kept,
                   orchVars, requests, open, response, caught, prompt, split>>

\* The chat handler before any request, under one configuration.
ServerAtRest(cap, promptLen, form) ==
    /\ outputTokenCap = cap
    /\ systemPromptLen = promptLen
    /\ variant = form
    /\ messages = <<>>
    /\ interactions = <<>>
    /\ turnPc = "idle"
    /\ turns = 0
    /\ user = NoUser
    /\ streamedText = EmptyContent
    /\ kept = <<>>
    /\ attempt = 0
    /\ maxTokens = 0
    /\ lastError = "null"
    /\ collected = <<>>
    /\ lastFinishReason = "null"
    /\ requests = <<>>
    /\ open = 0
    /\ response = NoResponse
    /\ caught = "null"
    /\ prompt = NoPrompt
    /\ chat = [h \in ChatTurns |-> NoChat]

\* ---------------------------------------------------------------------------
\* The specification of indexing and retrieval.
\* ---------------------------------------------------------------------------

EmptyStore == [docs |-> <<>>, embs |-> <<>>, jobs |-> <<>>]

PriorStore ==
    IngestCommit(<<>>, <<>>, StartIndexingJob(<<>>, "a.pdf", 1, 1),
                 [pc |-> "embed", filename |-> "a.pdf", mtime |-> 1, hash |-> 1,
                  jobId |-> 1])

\* the directory at process start: each file missing or present; a.pdf with
\* either content, b.pdf with the first
InitialDisks ==
    {d \in [Files -> {Absent} \cup {[hash |-> h, mtime |-> 1] : h \in Hashes}] :
        d["b.pdf"].hash \in {0, 1}}

Init ==
    /\ disk \in InitialDisks
    /\ writes = 0
    /\ \E s \in {EmptyStore, PriorStore} :
         /\ documents = s.docs
         /\ embeddings = s.embs
         /\ jobs = s.jobs
    /\ embTask = [o \in Owners |-> NoTask]
    /\ embeddingQueue = "resolved"
    /\ embOrder = <<>>
    /\ embeddingWarmupPromise = "null"
    /\ chatWarmupPromise = "null"
    /\ startupPc = "load"
    /\ startupError = NoError
    /\ bulkFiles = <<>>
    /\ bulkResults = <<>>
    /\ ing = [p \in Ingesters |-> IdleIng]
    /\ pendingFiles = <<>>
    /\ processingQueue = FALSE
    /\ workerPc = [w \in Workers |-> "idle"]
    /\ lastResult = NoResult
    /\ events = 0
    /\ reader = [r \in Readers |-> IdleReader]
    /\ retrievals = 0
    /\ ServerAtRest(DEFAULT_OUTPUT_TOKENS, 2000, "stream")
    /\ similarity = <<>>
    /\ retrieval = NoRetrieval
    /\ split = NoSplit

Next ==
    \/ \E ok \in BOOLEAN : StartupLoad(ok)
    \/ \E res \in ModelLists : StartupVerify(res)
    \/ \E ok \in BOOLEAN : WarmupEmbedSettle(ok)
    \/ \E ok \in BOOLEAN : ChatWarmupSettle(ok)
    \/ StartupWarmed
    \/ BulkNext
    \/ BulkFinish
    \/ \E o \in Owners : EmbeddingTaskStart(o)
    \/ \E p \in Ingesters, ok \in BOOLEAN : IngestParsed(p, ok)
    \/ \E p \in Ingesters, ok \in BOOLEAN : IngestEmbedded(p, ok)
    \/ \E name \in EventNames : EnqueueFile(name)
    \/ \E w \in Workers : WorkerResume(w)
    \/ \E r \in Readers : RetrieveCall(r)
    \/ \E r \in Readers, ok \in BOOLEAN : RetrieveEmbedded(r, ok)
    \/ \E f \in ChangingFiles, h \in Hashes : WriteFile(f, h)
    \/ \E f \in ChangingFiles : DeleteFile(f)

Spec == Init /\ [][Next]_vars

\* ---------------------------------------------------------------------------
\* The specification of the chat turn: the server has started over an indexed
\* a.pdf and the watcher is quiet; the configuration and the handler's form
\* are chosen at the start.
\* ---------------------------------------------------------------------------

InitTurn ==
    /\ disk = [f \in Files |-> IF f = "a.pdf" THEN [hash |-> 1, mtime |-> 1] ELSE Absent]
    /\ writes = 0
    /\ documents = PriorStore.docs
    /\ embeddings = PriorStore.embs
    /\ jobs = PriorStore.jobs
    /\ embTask = [o \in Owners |-> NoTask]
    /\ embeddingQueue = "resolved"
    /\ embOrder = <<>>
    /\ embeddingWarmupPromise = "fulfilled"
    /\ chatWarmupPromise = "fulfilled"
    /\ startupPc = "running"
    /\ startupError = NoError
    /\ bulkFiles = <<>>
    /\ bulkResults = <<[filename |-> "a.pdf", status |-> "skipped", error |-> "none"]>>
    /\ ing = [p \in Ingesters |-> IdleIng]
    /\ pendingFiles = <<>>
    /\ processingQueue = FALSE
    /\ workerPc = [w \in Workers |-> "idle"]
    /\ lastResult = NoResult
    /\ events = 0
    /\ reader = [r \in Readers |-> IdleReader]
    /\ retrievals = 0
    /\ \E cap \in OutputTokenCaps, promptLen \in SystemPromptLens,
          form \in {"stream", "block"} : ServerAtRest(cap, promptLen, form)
    /\ similarity = <<>>
    /\ retrieval = NoRetrieval
    /\ split = NoSplit

NextTurn ==
    \/ \E m \in UserMessages : ChatRequest(m)
    \/ \E contextChunks \in RetrievedContexts : RetrieveContextResolves(contextChunks)
    \/ RetrieveContextRejects
    \/ \E delta \in {t \in Texts : Len(t) <= 1}, finishReason \in FinishReasons :
          StreamPart(delta, finishReason)
    \/ StreamEnds
    \/ StreamThrows
    \/ \E completion \in Completions : CompletionSettles(completion)

SpecTurn == InitTurn /\ [][NextTurn]_vars

\* ---------------------------------------------------------------------------
\* The specification of one retrieval: the server is running over a.pdf
\* indexed with up to MaxRows chunks (none when its last indexing found no
\* text), and the query has some similarity to each stored row.
\* ---------------------------------------------------------------------------

CorpusRows(n) ==
    [i \in 1..n |-> [document_id |-> 1, chunk_index |-> i - 1,
                     embedding |-> EmbeddingOf(<<1, i - 1>>), text |-> <<1, i - 1>>]]

InitRetrieve ==
    /\ disk = [f \in Files |-> IF f = "a.pdf" THEN [hash |-> 1, mtime |-> 1] ELSE Absent]
    /\ writes = 0
    /\ documents = PriorStore.docs
    /\ jobs = PriorStore.jobs
    /\ \E n \in 0..MaxRows :
          /\ embeddings = CorpusRows(n)
          /\ similarity \in [1..n -> Scores]
    /\ embTask = [o \in Owners |-> NoTask]
    /\ embeddingQueue = "resolved"
    /\ embOrder = <<>>
    /\ embeddingWarmupPromise = "fulfilled"
    /\ chatWarmupPromise = "fulfilled"
    /\ startupPc = "running"
    /\ startupError = NoError
    /\ bulkFiles = <<>>
    /\ bulkResults = <<[filename |-> "a.pdf", status |-> "skipped", error |-> "none"]>>
    /\ ing = [p \in Ingesters |-> IdleIng]
    /\ pendingFiles = <<>>
    /\ processingQueue = FALSE
    /\ workerPc = [w \in Workers |-> "idle"]
    /\ lastResult = NoResult
    /\ events = 0
    /\ reader = [r \in Readers |-> IdleReader]
    /\ retrievals = 0
    /\ ServerAtRest(DEFAULT_OUTPUT_TOKENS, 2000, "stream")
    /\ retrieval = NoRetrieval
    /\ split = NoSplit

NextRetrieve ==
    \/ RetrieveContextCall
    \/ \E o \in Owners : EmbeddingTaskStart(o)
    \/ \E ok \in BOOLEAN : RetrieveContextSettles(ok)

SpecRetrieve == InitRetrieve /\ [][NextRetrieve]_vars

(***************************************************************************)
(* Properties of Spec.                                                     *)
(***************************************************************************)
RowsOf(rows, f) == SelectSeq(rows, LAMBDA x : x.filename = f)

ChunkRowsOf(f) == RowsOf(GetAllEmbeddings(documents, embeddings), f)

\* C1: at every moment at most one embedding request to the endpoint is in
\* flight, counting ingestion batches, the warm-up probe and query embeddings.
C1_OneEmbeddingInFlight == Cardinality(InFlightEmbeddings) <= 1

\* a query embedding is in flight while an ingestion batch and the other
\* reader's query wait behind it
C1_Witness ==
    /\ embTask["r1"].state = "running"
    /\ embTask["r2"].state = "queued"
    /\ \E w \in Workers : embTask[w].state = "queued"

\* C2: at most one ingestDocument call is in flight system-wide; the worker is
\* active only once startup has finished, the bulk scan only before that.
C2_OneIngestionInFlight ==
    /\ Cardinality(InFlightIngestions) <= 1
    /\ Cardinality({w \in Workers : workerPc[w] # "idle"}) <= 1
    /\ (\E w \in Workers : workerPc[w] # "idle") => startupPc = "running"
    /\ pendingFiles # <<>> => startupPc = "running"
    /\ ing["bulk"].pc # "none" => startupPc = "bulk"

\* two more events arrived while the worker was awaiting an ingestion
C2_Witness ==
    /\ \E w \in Workers : workerPc[w] = "await" /\ ing[w].pc = "embed"
    /\ events >= 2
    /\ pendingFiles # <<>>

\* C3: the rows one retrieval read hold, for every filename, the chunks of
\* exactly one ingestion generation of that document, all of them and no other.
C3_ReplacementAtomicity ==
    \A r \in Readers : \A f \in Files :
        LET got == RowsOf(reader[r].rows, f)
        IN  got # <<>> =>
              \E h \in Hashes :
                /\ Len(got) = Len(ChunksOf(h))
                /\ \A i \in 1..Len(got) :
                     /\ got[i].text = ChunksOf(h)[i]
                     /\ got[i].chunk_index = i - 1

\* a retrieval holds rows of a document whose re-ingestion with other content
\* is in flight
C3_Witness ==
    \E r \in Readers, p \in Ingesters :
        /\ reader[r].pc = "embed"
        /\ ing[p].pc = "embed"
        /\ RowsOf(reader[r].rows, ing[p].filename) # <<>>
        /\ GetDocumentByFilename(documents, ing[p].filename).hash # ing[p].hash

IngestFailed(p) == IngestParsed(p, FALSE) \/ IngestEmbedded(p, FALSE)

\* the latest result the caller p holds
ResultSeenBy(p) ==
    IF p # "bulk" THEN lastResult
    ELSE IF bulkResults = <<>> THEN NoResult
    ELSE bulkResults[Len(bulkResults)]

\* C4: when extraction or the embedding call fails, the job is marked error
\* with the detail, the caller receives the error, and the store is as before
\* the call: same Document rows, same chunks, so the file still counts as changed.
C4_FailureLeavesStore ==
    [][\A p \in Ingesters :
         IngestFailed(p) =>
           /\ documents' = documents
           /\ embeddings' = embeddings
           /\ jobs'[ing[p].jobId].status = "error"
           /\ jobs'[ing[p].jobId].error \in {"parse", "embedding"}
           /\ \A j \in 1..Len(jobs) : j # ing[p].jobId => jobs'[j] = jobs[j]
           /\ ResultSeenBy(p)'.status = "error"
           /\ ResultSeenBy(p)'.filename = ing[p].filename
           /\ ~Unchanged(GetDocumentByFilename(documents', ing[p].filename),
                         [hash |-> ing[p].hash, mtime |-> ing[p].mtime])
      ]_vars

\* a re-ingestion of an indexed document with new content has failed at the
\* embedding call, and the document still has its old hash and all old chunks
C4_Witness ==
    \E j \in 1..Len(jobs) :
        LET d == GetDocumentByFilename(documents, jobs[j].filename)
        IN  /\ jobs[j].status = "error"
            /\ jobs[j].error = "embedding"
            /\ d # NoDoc
            /\ d.hash # jobs[j].hash
            /\ Len(ChunkRowsOf(jobs[j].filename)) = Len(ChunksOf(d.hash))

\* the file ingestDocument is called on in this step, by caller p
CalledOn(p, f) ==
    IF p = "bulk"
    THEN BulkNext /\ f = Head(bulkFiles)
    ELSE \/ WorkerResume(p) /\ pendingFiles # <<>> /\ f = Head(pendingFiles)
         \/ /\ workerPc[p] = "idle"
            /\ workerPc'[p] # "idle"
            /\ \E name \in Files : EnqueueFile(name) /\ f = Head(AddPending(name))

\* C5: ingestDocument on a file whose hash and mtime both equal the recorded
\* ones returns skipped and changes nothing: no job, no embedding request, the
\* Document row and the chunk set as they were.
C5_SkipHasNoEffect ==
    [][\A p \in Ingesters : \A f \in Files :
         (/\ CalledOn(p, f)
          /\ disk[f] # Absent
          /\ GetDocumentByFilename(documents, f) # NoDoc
          /\ GetDocumentByFilename(documents, f).hash = disk[f].hash
          /\ GetDocumentByFilename(documents, f).mtime = disk[f].mtime)
         =>
           /\ ResultSeenBy(p)' = [filename |-> f, status |-> "skipped", error |-> "none"]
           /\ documents' = documents
           /\ embeddings' = embeddings
           /\ jobs' = jobs
           /\ embTask' = embTask
           /\ embeddingQueue' = embeddingQueue
           /\ ing' = ing
      ]_vars

\* the worker has skipped an unchanged file and the startup scan has too
C5_Witness ==
    /\ lastResult.status = "skipped"
    /\ \E i \in 1..Len(bulkResults) : bulkResults[i].status = "skipped"


\* ---------------------------------------------------------------------------
\* Properties of the chat turn (SpecTurn).
\* ---------------------------------------------------------------------------

HasVisibleChar(text) == \E i \in 1..Len(text) : text[i] # " "

Accepted == turnPc = "idle" /\ response.type = "chat_success"

\* C6: in one chat turn the orchestrator, streaming or blocking, issues at
\* most two completion requests, never has two of them in flight at once (a
\* request is issued only when the one before it has ended), and the step
\* that accepts an attempt and ends the turn issues no request and leaves
\* none in flight.
C6_AtMostTwoSequentialRequests ==
    /\ [](Len(requests) <= 2 /\ open <= 1 /\ (turnPc = "idle" => open = 0))
    /\ [][(turnPc # "idle" /\ Accepted') => (requests' = requests /\ open' = 0)]_vars

C6_Witness ==
    /\ Accepted
    /\ Len(requests) = 2
    /\ open = 0

\* C7 (as the code has it): when a second completion request is issued its
\* max_tokens is at most CONFIG.outputTokenCap and never below the first
\* request's; it is strictly greater exactly when the first request was below
\* the cap, and equal to the first when the first was already at the cap.
C7_RetryGrowthUpToCap ==
    Len(requests) >= 2 =>
        /\ requests[2] <= outputTokenCap
        /\ requests[2] >= requests[1]
        /\ (requests[1] < outputTokenCap => requests[2] > requests[1])
        /\ (requests[1] = outputTokenCap => requests[2] = requests[1])

C7_Witness ==
    /\ Len(requests) = 2
    /\ requests[1] < outputTokenCap
    /\ requests[2] > requests[1]

\* C7 as the claim states it: the second request's max_tokens is strictly
\* greater than the first's and at most the cap, whatever the first was.
C7_StrictGrowthAlways ==
    Len(requests) >= 2 =>
        (requests[2] > requests[1] /\ requests[2] <= outputTokenCap)

\* C8: the blocking orchestrator accepts a completion exactly when it has a
\* first choice whose finish signal is 'stop' and whose text has a visible
\* character; every other completion (no finish signal, another finish
\* signal, empty or white-space text) takes the step a thrown request error
\* takes: the attempt is counted, and either the next request goes out with
\* the grown max_tokens or, at the ceiling, the turn ends with the fallback.
C8_BlockingAcceptance ==
    [][\A completion \in Completions :
          (turnPc = "block" /\ completion.ok /\ completion.choices > 0
              /\ CompletionSettles(completion)) =>
              LET valid == completion.finish = "stop" /\ HasVisibleChar(completion.text)
              IN /\ valid <=> Accepted'
                 /\ valid => response'.message.text = Trim(completion.text)
                 /\ ~valid =>
                       IF attempt + 1 >= 2
                       THEN /\ turnPc' = "idle"
                            /\ response'.type = "chat_fallback"
                            /\ requests' = requests
                       ELSE /\ turnPc' = "block"
                            /\ attempt' = attempt + 1
                            /\ Len(requests') = Len(requests) + 1
                            /\ requests'[Len(requests')] >= maxTokens]_vars

C8_Witness ==
    /\ variant = "block"
    /\ turnPc = "block"
    /\ Len(requests) = 2
    /\ lastError = "LLM returned an invalid response"

C10_MidStreamFailureKeepsPartial ==
    [][(StreamThrows /\ Len(collected) > 0) =>
          /\ requests' = requests
          /\ open' = 0
          /\ turnPc' = "idle"
          /\ response'.type = "chat_success"
          /\ response'.interrupted
          /\ streamedText.text = collected
          /\ response'.message = Reply(collected)
          /\ Len(messages') = Len(messages) + 1
          /\ messages'[Len(messages')].role = "assistant"
          /\ messages'[Len(messages')].content = Reply(collected)]_vars

C10_Witness ==
    /\ variant = "stream"
    /\ Accepted
    /\ response.interrupted
    /\ Len(streamedText.text) > 0
    /\ messages[Len(messages)].content = streamedText

\* C11: in the streaming variant a new request is issued only after an
\* attempt that relayed no token; so while a stream is read the text the
\* caller has accumulated is the text collected in the current attempt alone,
\* and when the orchestrator returns, the answer is that accumulated text.
C11_RetryOnlyAfterSilentAttempt ==
    /\ [](turnPc = "stream" => streamedText = Reply(collected))
    /\ [][(turnPc = "stream" /\ Len(requests') > Len(requests)) =>
             (collected = <<>> /\ streamedText.len = 0)]_vars
    /\ [][(turnPc = "stream" /\ Accepted') =>
             /\ streamedText' = streamedText
             /\ streamedText.text = collected
             /\ response'.message.text = collected]_vars

C11_Witness ==
    /\ turnPc = "stream"
    /\ Len(requests) = 2
    /\ Len(collected) > 0
    /\ streamedText.text = collected

\* C12: when the last allowed attempt fails (a thrown request, a tokenless
\* stream, a body without choices or an invalid completion), no further
\* request is issued, the handler's catch block receives the error of that
\* last attempt, and the turn is answered with the fixed fallback reply in
\* the language detected for the user message, stored as the assistant
\* message.
C12_ExhaustionFallsBack ==
    [][(turnPc \in {"stream", "block"} /\ turnPc' = "idle" /\ ~Accepted') =>
          /\ Len(requests) = 2
          /\ requests' = requests
          /\ StreamEnds => caught' = "Stream returned no tokens"
          /\ StreamThrows => caught' = "request error"
          /\ \A completion \in Completions :
                CompletionSettles(completion) =>
                    caught' = IF ~completion.ok THEN "request error"
                              ELSE IF completion.choices = 0
                              THEN "LM Studio returned no choices"
                              ELSE "LLM returned an invalid response"
          /\ caught' # "null"
          /\ response'.type = "chat_fallback"
          /\ response'.message.kind = "fallback"
          /\ response'.message.lang = user.lang
          /\ response'.message.len = (IF user.lang = "zh" THEN 45 ELSE 150)
          /\ messages' = Append(messages, [id |-> Len(messages) + 1,
                                           role |-> "assistant",
                                           content |-> response'.message])]_vars

C12_Witness ==
    /\ turnPc = "idle"
    /\ response.type = "chat_fallback"
    /\ Len(requests) = 2
    /\ user.lang = "zh"
    /\ response.message.lang = "zh"
    /\ caught = "LLM returned an invalid response"

\* C13: every chat request that has been answered, on whichever path, has
\* added exactly two rows to the conversation, the user message and after it
\* one assistant message with non-empty text, and exactly one interaction
\* row that links the two; a request that is still being handled has added
\* its user message only.
C13_OneAnswerPerRequest ==
    /\ Len(interactions) = (IF turnPc = "idle" THEN turns ELSE turns - 1)
    /\ Len(messages) = turns + Len(interactions)
    /\ \A k \in 1..Len(interactions) :
          /\ messages[2 * k - 1].role = "user"
          /\ messages[2 * k].role = "assistant"
          /\ messages[2 * k].content.len > 0
          /\ interactions[k].user_message_id = messages[2 * k - 1].id
          /\ interactions[k].ai_message_id = messages[2 * k].id
          /\ messages[2 * k - 1].id = 2 * k - 1
          /\ messages[2 * k].id = 2 * k
    /\ turnPc # "idle" => messages[Len(messages)].role = "user"

C13_Witness ==
    /\ turnPc = "idle"
    /\ caught = "Insufficient tokens available for generation"
    /\ Len(messages) = 2
    /\ Len(interactions) = 1
    /\ messages[2].content.kind = "fallback"

\* C14 as the claim states it: a turn whose query embedding failed is not
\* answered through the handler's failure path; the retrieval error never
\* reaches the catch block that answers with the fallback reply.
C14_RetrievalFailureDegrades ==
    caught # "Embedding request failed"

BudgetErrors ==
    {"Insufficient context window", "Insufficient tokens available for generation"}

\* C15: in the streaming handler, when the estimated cost of the preamble,
\* the instructions and the windowed history alone is 30000 tokens or more,
\* or leaves fewer than 1024 tokens of the 30000, budgeting throws: the turn
\* is answered through the failure path and no completion request is issued
\* and no prompt is built, then or later in the turn.
C15_BudgetExhaustionSendsNothing ==
    /\ [][\A contextChunks \in RetrievedContexts :
             (variant = "stream" /\ RetrieveContextResolves(contextChunks)) =>
                LET base == SystemTokens(user.lang)
                               + ConversationTokens(GetTrimmedHistory(messages))
                IN (base >= 30000 \/ 30000 - base < 1024) =>
                      /\ caught' \in BudgetErrors
                      /\ response'.type = "chat_fallback"
                      /\ requests' = <<>>
                      /\ open' = 0
                      /\ prompt' = NoPrompt]_vars
    /\ [](caught \in BudgetErrors =>
             (turnPc = "idle" /\ requests = <<>> /\ open = 0 /\ prompt = NoPrompt))

C15_Witness ==
    /\ caught = "Insufficient context window"
    /\ response.type = "chat_fallback"
    /\ requests = <<>>
    /\ prompt = NoPrompt

\* C16: the streaming budgeter keeps a prefix of the retrieved chunks in
\* rank order: it drops chunks from the last end, one at a time, exactly
\* until the reserved cost is at most 20000 tokens or no chunk is left, and
\* the prompt it then sends carries that prefix and the whole windowed
\* history (the last six rows of the conversation), never a shortened one.
C16_ContextTrimmedFromTheEnd ==
    [][\A contextChunks \in RetrievedContexts :
          (variant = "stream" /\ RetrieveContextResolves(contextChunks)) =>
             LET history == GetTrimmedHistory(messages)
                 cost(n) == SystemTokens(user.lang) + ConversationTokens(history)
                               + SumTokens(SubSeq(contextChunks, 1, n))
                 n == Len(kept')
             IN /\ n <= Len(contextChunks)
                /\ kept' = SubSeq(contextChunks, 1, n)
                /\ cost(n) <= 20000 \/ n = 0
                /\ n < Len(contextChunks) => cost(n + 1) > 20000
                /\ turnPc' = "stream" =>
                      /\ prompt'.context = kept'
                      /\ Len(prompt'.history) = Min(6, Len(messages))
                      /\ \A i \in 1..Len(prompt'.history) :
                            prompt'.history[i] =
                                messages[Len(messages) - Len(prompt'.history) + i].id]_vars

C16_Witness ==
    /\ variant = "stream"
    /\ turnPc = "stream"
    /\ kept = <<824>>
    /\ prompt.context = <<824>>
    /\ prompt.history = <<1>>

\* ---------------------------------------------------------------------------
\* Retrieval results (SpecRetrieve)
\* ---------------------------------------------------------------------------

\* the retrieval has returned over a store with rows
Retrieved == retrieval.pc = "returned" /\ Len(retrieval.rows) > 0

\* row i is ranked ahead of row j: a higher similarity, or the same
\* similarity and an earlier place in the scan
RankedBefore(i, j) ==
    \/ similarity[i] > similarity[j]
    \/ similarity[i] = similarity[j] /\ i < j

\* row j is one of the top-K highest-scoring rows
AmongTopK(j) ==
    Cardinality({i \in 1..Len(retrieval.rows) : RankedBefore(i, j)}) < TopK

\* C17: for every corpus and query, the chunks retrieveContext returns are in
\* non-increasing score order, are at most topK (2) in number, and none
\* scores below a configured minimum-score threshold; the ranked selection
\* they are filtered from is itself in non-increasing order and at most
\* topK long, and the sources are the same items as the chunks.
C17_ReturnedChunksRankedAndBounded ==
    retrieval.pc = "returned" =>
        LET chunks == retrieval.result.contextChunks
            sources == retrieval.result.sources
            top == Top(retrieval.rows, similarity)
        IN /\ Len(chunks) <= 2
           /\ \A i, j \in 1..Len(chunks) : i < j => chunks[i].score >= chunks[j].score
           /\ \A i \in 1..Len(chunks) :
                 \A threshold \in MinScore : chunks[i].score >= threshold
           /\ Len(sources) = Len(chunks)
           /\ \A i \in 1..Len(chunks) : sources[i].score = chunks[i].score
           /\ Len(top) <= 2
           /\ \A i, j \in 1..Len(top) : i < j => top[i].score >= top[j].score

C17_Witness ==
    /\ Retrieved
    /\ Len(retrieval.rows) = 3
    /\ similarity = <<1, 3, 2>>
    /\ Len(retrieval.result.contextChunks) <= 2

\* C18: under the repository's retrieval configuration, every stored chunk
\* that is among the top-K by score and does not score below a configured
\* minimum-score threshold is present in the returned contextChunks and in
\* the returned sources.
C18_TopChunksAboveThresholdReturned ==
    Retrieved =>
        \A j \in 1..Len(retrieval.rows) :
            (AmongTopK(j) /\ \A threshold \in MinScore : similarity[j] >= threshold) =>
                /\ \E k \in 1..Len(retrieval.result.contextChunks) :
                      /\ retrieval.result.contextChunks[k].filename = retrieval.rows[j].filename
                      /\ retrieval.result.contextChunks[k].chunkIndex = retrieval.rows[j].chunk_index
                /\ \E k \in 1..Len(retrieval.result.sources) :
                      /\ retrieval.result.sources[k].filename = retrieval.rows[j].filename
                      /\ retrieval.result.sources[k].chunkIndex = retrieval.rows[j].chunk_index

\* C19: when the store holds at least one chunk embedding, the maxScore
\* retrieveContext returns is the highest raw similarity over all stored
\* chunks, also when the filter has removed every chunk.
C19_MaxScoreIsHighestRawScore ==
    Retrieved =>
        /\ Len(retrieval.result.maxScore) = 1
        /\ \E j \in 1..Len(retrieval.rows) : retrieval.result.maxScore[1] = similarity[j]
        /\ \A j \in 1..Len(retrieval.rows) : retrieval.result.maxScore[1] >= similarity[j]

C19_Witness ==
    /\ Retrieved
    /\ similarity = <<1, 3, 2>>
    /\ retrieval.result.contextChunks = <<>>
    /\ retrieval.result.maxScore = <<3>>

\* C20: when the store holds no chunk embedding, retrieveContext returns the
\* empty result (no chunks, no sources, maxScore null) in the call itself:
\* no embedding task is queued or started, and the call never throws.
C20_EmptyStoreReturnsEmptyWithoutEmbedding ==
    /\ [](Len(embeddings) = 0 =>
            /\ retrieval.pc \in {"idle", "returned"}
            /\ \A o \in Owners : embTask[o].state = "none")
    /\ [][(RetrieveContextCall /\ Len(embeddings) = 0) =>
            /\ retrieval'.pc = "returned"
            /\ retrieval'.result.contextChunks = <<>>
            /\ retrieval'.result.sources = <<>>
            /\ retrieval'.result.maxScore = <<>>
            /\ UNCHANGED <<embTask, embeddingQueue>>]_vars

C20_Witness ==
    /\ Len(embeddings) = 0
    /\ retrieval.pc = "returned"
    /\ retrieval.result.maxScore = <<>>
    /\ embTask["r1"].state = "none"
    /\ embeddingQueue = "resolved"
    /\ embOrder = <<>>

\* ---------------------------------------------------------------------------
\* Startup and ingestion errors (Spec)
\* ---------------------------------------------------------------------------

\* the files ingestDocuments has attempted, is attempting and has still to
\* attempt, in that order
BulkAttempted ==
    Filenames(bulkResults)
        \o (IF ing["bulk"].pc # "none" THEN <<ing["bulk"].filename>> ELSE <<>>)
        \o bulkFiles

\* the store holds f as one complete ingestion: its row, the chunks of the
\* recorded content and no other
Committed(f) ==
    LET d == GetDocumentByFilename(documents, f)
        rows == ChunkRowsOf(f)
    IN /\ d # NoDoc
       /\ Len(rows) = Len(ChunksOf(d.hash))
       /\ \A i \in 1..Len(rows) : rows[i].text = ChunksOf(d.hash)[i]

\* C21: bulk ingestion attempts every scanned file once, in scan order,
\* whether or not an earlier file failed; it ends only when all have been
\* attempted; it throws exactly when some file failed, the error names
\* exactly the failed files, and every file the call indexed is committed in
\* the store when it throws.
C21_BulkIngestsAllThenNamesFailures ==
    /\ [][(StartupWarmed /\ startupPc' = "bulk") => BulkAttempted' = ScanFiles]_vars
    /\ [][startupPc = "bulk" => BulkAttempted' = BulkAttempted]_vars
    /\ [][BulkFinish =>
            /\ bulkFiles = <<>>
            /\ Filenames(bulkResults) = BulkAttempted
            /\ (startupError'.message = "Failed to ingest") <=>
                   (\E i \in 1..Len(bulkResults) : bulkResults[i].status = "error")
            /\ startupError'.message = "Failed to ingest" =>
                  /\ startupPc' = "exit"
                  /\ \A f \in Files :
                        InSeq(f, startupError'.files) <=>
                           \E i \in 1..Len(bulkResults) :
                              bulkResults[i].filename = f /\ bulkResults[i].status = "error"
                  /\ Len(startupError'.files) =
                        Cardinality({i \in 1..Len(bulkResults) :
                                        bulkResults[i].status = "error"})
            /\ <<documents, embeddings, jobs>>' = <<documents, embeddings, jobs>>]_vars
    /\ [](startupError.message = "Failed to ingest" =>
            \A i \in 1..Len(bulkResults) :
               bulkResults[i].status = "indexed" => Committed(bulkResults[i].filename))

\* a.pdf failed, b.pdf was still ingested and is in the store, and the error
\* names a.pdf alone
C21_Witness ==
    /\ startupPc = "exit"
    /\ startupError = Error("Failed to ingest", <<"a.pdf">>)
    /\ Len(bulkResults) = 2
    /\ bulkResults[1].filename = "a.pdf" /\ bulkResults[1].status = "error"
    /\ bulkResults[2].filename = "b.pdf" /\ bulkResults[2].status = "indexed"
    /\ Committed("b.pdf")

\* C22: ingestDocument on a file that is no longer on disk fails with the
\* 'no longer exists' error and changes nothing in the store: no Document
\* row, no chunk, no job, no embedding request; the caller holds the error,
\* and the watcher worker goes on round its loop with the rest of its
\* backlog, the in-flight flag still set.
C22_MissingFileFailsAndLeavesStore ==
    [][\A p \in Ingesters : \A f \in Files :
         (CalledOn(p, f) /\ disk[f] = Absent) =>
           /\ ResultSeenBy(p)' =
                 [filename |-> f, status |-> "error", error |-> "no longer exists"]
           /\ documents' = documents
           /\ embeddings' = embeddings
           /\ jobs' = jobs
           /\ embTask' = embTask
           /\ embeddingQueue' = embeddingQueue
           /\ ing' = ing
           /\ p \in Workers =>
                 /\ workerPc'[p] = "loop"
                 /\ processingQueue'
                 /\ \A g \in Files :
                       (g # f /\ InSeq(g, pendingFiles)) => InSeq(g, pendingFiles')
      ]_vars

\* a stale event for the deleted a.pdf has failed in the worker, a.pdf is
\* still indexed in full, and b.pdf waits in the backlog of the worker
C22_Witness ==
    /\ disk["a.pdf"] = Absent
    /\ lastResult = [filename |-> "a.pdf", status |-> "error", error |-> "no longer exists"]
    /\ Committed("a.pdf")
    /\ pendingFiles = <<"b.pdf">>
    /\ \E w \in Workers : workerPc[w] = "loop"

\* ---------------------------------------------------------------------------
\* Short-circuits and the token ceiling (SpecTurn)
\* ---------------------------------------------------------------------------

\* C23: when the request body, trimmed, lower-cased and with the marks
\* ! , . and their full-width forms removed, is one of the six fixed
\* greetings, the turn answers the canned greeting in the detected language,
\* stores it as the assistant message, logs one Interaction with empty
\* sources, and calls neither retrieveContext (no embedding task) nor the
\* completion endpoint.
C23_GreetingShortCircuit ==
    [][\A m \in UserMessages :
         (/\ ChatRequest(m)
          /\ m.pad = 0
          /\ StripPunctuation(ToLowerCase(Trim(m.text))) \in Greetings)
         =>
           /\ turnPc' = "idle"
           /\ response'.type = "greeting"
           /\ response'.message = Fixed("greeting", DetectLanguage(m))
           /\ response'.sources = 0
           /\ Len(messages') = Len(messages) + 2
           /\ messages'[Len(messages')].role = "assistant"
           /\ messages'[Len(messages')].content = Fixed("greeting", DetectLanguage(m))
           /\ interactions' =
                 Append(interactions,
                        [user_message_id |-> Len(messages) + 1,
                         ai_message_id |-> Len(messages) + 2, rag_sources |-> 0])
           /\ requests' = <<>>
           /\ open' = 0
           /\ embTask' = embTask
           /\ embeddingQueue' = embeddingQueue
           /\ retrieval' = retrieval
      ]_vars

\* " 你好！" was answered with the Chinese greeting
C23_Witness ==
    /\ turnPc = "idle"
    /\ response.type = "greeting"
    /\ response.message = Fixed("greeting", "zh")
    /\ Len(interactions) = 1
    /\ interactions[1].rag_sources = 0
    /\ requests = <<>>

\* the reserved cost of the turn's prompt with the context chunks selected
ReservedWith(selected) ==
    SystemTokens(user.lang) + ConversationTokens(GetTrimmedHistory(messages))
        + SumTokens(selected)

\* C24: in the streaming handler, whenever no retrieved chunk remains after
\* budgeting and budgeting did not fail (the reserved cost is below 30000
\* and leaves at least 1024 tokens), the turn answers the fixed
\* could-not-find message in the detected language, stores it, logs one
\* Interaction with empty sources and issues no completion request.
C24_NoContextShortCircuit ==
    [][\A contextChunks \in RetrievedContexts :
         (/\ variant = "stream"
          /\ RetrieveContextResolves(contextChunks)
          /\ Len(kept') = 0
          /\ ReservedWith(<<>>) < 30000
          /\ 30000 - ReservedWith(<<>>) >= 1024)
         =>
           /\ turnPc' = "idle"
           /\ response'.type = "no_context"
           /\ response'.finishReason = "no_context"
           /\ response'.message = Fixed("no_context", user.lang)
           /\ response'.sources = 0
           /\ messages' = Append(messages,
                                 [id |-> Len(messages) + 1, role |-> "assistant",
                                  content |-> Fixed("no_context", user.lang)])
           /\ interactions' =
                 Append(interactions,
                        [user_message_id |-> user.id,
                         ai_message_id |-> Len(messages) + 1, rag_sources |-> 0])
           /\ streamedText' = Fixed("no_context", user.lang)
           /\ requests' = <<>>
           /\ open' = 0
      ]_vars

\* the Chinese question found no context and was answered without a request
C24_Witness ==
    /\ variant = "stream"
    /\ turnPc = "idle"
    /\ response.type = "no_context"
    /\ response.message = Fixed("no_context", "zh")
    /\ kept = <<>>
    /\ Len(interactions) = 1
    /\ interactions[1].rag_sources = 0
    /\ requests = <<>>

\* C25: with no PDF in the knowledge-base directory, the startup ingestion
\* returns the empty result list without touching the store or starting an
\* ingestion, startup fails with the 'No PDFs found' error, and from then on
\* the process never listens and never starts the watcher: no watch event,
\* no retrieval and no chat turn is ever served.
C25_EmptyDirectoryFailsStartup ==
    /\ [][(/\ StartupWarmed
           /\ embeddingWarmupPromise = "fulfilled"
           /\ chatWarmupPromise = "fulfilled"
           /\ \A f \in Files : disk[f] = Absent)
          =>
            /\ bulkResults' = <<>>
            /\ startupError' = [message |-> "No PDFs found", files |-> <<>>]
            /\ startupPc' = "exit"
            /\ <<documents, embeddings, jobs, ing, embTask>>' =
                  <<documents, embeddings, jobs, ing, embTask>>]_vars
    /\ [](startupError.message = "No PDFs found" =>
            /\ startupPc = "exit"
            /\ events = 0
            /\ retrievals = 0
            /\ turns = 0
            /\ \A w \in Workers : workerPc[w] = "idle")
    /\ [][startupPc = "exit" => startupPc' = "exit"]_vars

\* startup has failed over an empty directory although a previous run left
\* an index behind
C25_Witness ==
    /\ \A f \in Files : disk[f] = Absent
    /\ startupPc = "exit"
    /\ startupError = Error("No PDFs found", <<>>)
    /\ bulkResults = <<>>
    /\ Len(embeddings) > 0

\* the server listens and the watcher runs
Serving == startupPc = "running"

\* C26: startup goes through its steps in one order only: the system prompt
\* is loaded, then the endpoint is asked for its models, then both warm-ups
\* run, then the initial ingestion, and only then the watcher is started and
\* the server listens. Each step is left forward only on success: the
\* verification only if the endpoint answered and lists both the chat and
\* the embedding model, the warm-up only if both probes succeeded, the
\* ingestion only if every file was attempted, none failed and the index has
\* chunks. A failure ends startup for good; after a failed verification no
\* warm-up, ingestion or embedding request has happened. Before the server
\* listens no watch event, retrieval or chat turn is handled.
C26_StartupGating ==
    /\ [][\/ startupPc' = startupPc
          \/ startupPc = "load" /\ startupPc' \in {"verify", "exit"}
          \/ startupPc = "verify" /\ startupPc' \in {"warmup", "exit"}
          \/ startupPc = "warmup" /\ startupPc' \in {"bulk", "exit"}
          \/ startupPc = "bulk" /\ startupPc' \in {"running", "exit"}]_vars
    /\ [][\A res \in ModelLists :
            StartupVerify(res) =>
               IF res.reachable /\ "chat" \in res.models /\ "embed" \in res.models
               THEN startupPc' = "warmup" /\ startupError' = NoError
               ELSE /\ startupPc' = "exit"
                    /\ startupError' # NoError
                    /\ <<embTask, embeddingQueue, embeddingWarmupPromise,
                         chatWarmupPromise>>' =
                          <<embTask, embeddingQueue, embeddingWarmupPromise,
                            chatWarmupPromise>>]_vars
    /\ [][(startupPc = "warmup" /\ startupPc' = "bulk") =>
             embeddingWarmupPromise = "fulfilled" /\ chatWarmupPromise = "fulfilled"]_vars
    /\ [][(startupPc = "bulk" /\ startupPc' = "running") =>
             /\ bulkFiles = <<>>
             /\ ing["bulk"].pc = "none"
             /\ Len(bulkResults) > 0
             /\ \A i \in 1..Len(bulkResults) : bulkResults[i].status # "error"
             /\ Len(embeddings) > 0]_vars
    /\ [](Serving =>
             /\ embeddingWarmupPromise = "fulfilled"
             /\ chatWarmupPromise = "fulfilled"
             /\ startupError = NoError)
    /\ [](~Serving =>
             /\ events = 0 /\ retrievals = 0 /\ turns = 0
             /\ pendingFiles = <<>>
             /\ \A w \in Workers : workerPc[w] = "idle")
    /\ [](startupPc \in {"load", "verify"}
          \/ startupError.message \in {"ENOENT", "LM Studio is not reachable",
                                       "Chat model not available in LM Studio",
                                       "Embedding model not found in LM Studio"}
          => /\ embeddingWarmupPromise = "null"
             /\ chatWarmupPromise = "null"
             /\ bulkResults = <<>>
             /\ \A o \in Owners : embTask[o].state = "none"
             /\ \A p \in Ingesters : ing[p].pc = "none")

\* the server is listening after a startup that indexed a file, and serves
C26_Witness ==
    /\ Serving
    /\ \E i \in 1..Len(bulkResults) : bulkResults[i].status = "indexed"
    /\ events > 0
    /\ retrievals > 0

\* ---------------------------------------------------------------------------
\* The order of the embedding queue (Spec)
\* ---------------------------------------------------------------------------

\* C27: embedding requests start in the order of their queueEmbeddingTask
\* calls: a task's endpoint call starts only when every task queued before
\* it has ended, with or without success, whether the tasks come from
\* ingestion, the warm-up or a query; so the request in flight is always the
\* oldest unsettled task.
C27_EmbeddingQueueIsFifo ==
    /\ [][\A o \in Owners :
            EmbeddingTaskStart(o) => (embOrder # <<>> /\ Head(embOrder) = o)]_vars
    /\ [](\A o \in Owners :
            embTask[o].state = "running" => (embOrder # <<>> /\ Head(embOrder) = o))
    /\ [](\A i \in 1..Len(embOrder) : embTask[embOrder[i]].state # "none")

\* an ingestion batch queued first is in flight; the two queries queued after
\* it wait in their order
C27_Witness ==
    /\ Len(embOrder) = 3
    /\ embOrder[1] \in Workers
    /\ embOrder[2] = "r1"
    /\ embOrder[3] = "r2"
    /\ embTask[embOrder[1]].state = "running"
    /\ embTask["r1"].state = "queued"
    /\ embTask["r2"].state = "queued"

\* ---------------------------------------------------------------------------
\* Retrieval against a concurrent ingestion (Spec)
\* ---------------------------------------------------------------------------

C29_TokenCeiling ==
    /\ [][\A contextChunks \in RetrievedContexts :
            (/\ variant = "stream"
             /\ RetrieveContextResolves(contextChunks)
             /\ turnPc' = "stream")
            =>
              LET remaining == 30000 - ReservedWith(kept')
              IN /\ requests' = <<IF remaining <= outputTokenCap THEN remaining
                                  ELSE outputTokenCap>>
                 /\ maxTokens' = requests'[1]
                 /\ requests'[1] >= 1024]_vars
    /\ [](\A i \in 1..Len(requests) : requests[i] <= outputTokenCap)

\* the first ceiling was what the budget left, below the cap, and the retry
\* was raised to the cap
C29_Witness ==
    /\ variant = "stream"
    /\ turnPc = "stream"
    /\ Len(requests) = 2
    /\ requests[1] = 30000 - ReservedWith(kept)
    /\ requests[1] < outputTokenCap
    /\ requests[2] = outputTokenCap

\* ---------------------------------------------------------------------------
\* The documents table (Spec)
\* ---------------------------------------------------------------------------

\* C30: after any sequence of ingestions (first ingestions, re-ingestions of
\* changed files, skipped and failed ones, by the startup scan and by the
\* worker) the documents table holds at most one row per filename, and no
\* two rows share an id.
C30_OneDocumentPerFilename ==
    /\ \A f \in Files :
          Cardinality({i \in 1..Len(documents) : documents[i].filename = f}) <= 1
    /\ \A i, j \in 1..Len(documents) : documents[i].id = documents[j].id => i = j

\* a.pdf was indexed and later re-indexed with other content; b.pdf is
\* indexed beside it
C30_Witness ==
    /\ Len(documents) = 2
    /\ \E i, j \in 1..Len(jobs) :
          /\ i < j
          /\ jobs[i].filename = "a.pdf" /\ jobs[i].status = "success"
          /\ jobs[j].filename = "a.pdf" /\ jobs[j].status = "success"
          /\ jobs[i].hash # jobs[j].hash
          /\ GetDocumentByFilename(documents, "a.pdf").hash = jobs[j].hash

\* ---------------------------------------------------------------------------
\* Chunk rows and ingestion jobs (Spec)
\* ---------------------------------------------------------------------------

\* the chunk rows of the Document with id docId, in rowid order
ChunksOfDocument(docId) == SelectSeq(embeddings, LAMBDA e : e.document_id = docId)

\* C31: after any sequence of ingestions, the chunk rows of every Document
\* carry the ordinals 0..n-1, each once, where n is the number of chunks of
\* the content recorded on the Document (its latest committed generation);
\* the text at ordinal i is chunk i of that content and the vector at
\* ordinal i is the embedding of that text; no chunk row belongs to no
\* Document.
C31_ChunkOrdinalsContiguous ==
    /\ \A d \in 1..Len(documents) :
          LET rows == ChunksOfDocument(documents[d].id)
              chunks == ChunksOf(documents[d].hash)
          IN /\ Len(rows) = Len(chunks)
             /\ \A i \in 0..(Len(chunks) - 1) :
                   /\ Cardinality({k \in 1..Len(rows) : rows[k].chunk_index = i}) = 1
                   /\ \A k \in 1..Len(rows) :
                         rows[k].chunk_index = i =>
                            /\ rows[k].text = chunks[i + 1]
                            /\ rows[k].embedding = EmbeddingOf(chunks[i + 1])
    /\ \A k \in 1..Len(embeddings) :
          \E d \in 1..Len(documents) : documents[d].id = embeddings[k].document_id

\* a.pdf was indexed with two chunks and then re-indexed with content of one
\* chunk: one row is left for it, with ordinal 0
C31_Witness ==
    /\ \E i, j \in 1..Len(jobs) :
          /\ i < j
          /\ jobs[i].filename = "a.pdf" /\ jobs[i].status = "success" /\ jobs[i].hash = 2
          /\ jobs[j].filename = "a.pdf" /\ jobs[j].status = "success" /\ jobs[j].hash = 1
    /\ GetDocumentByFilename(documents, "a.pdf").hash = 1
    /\ Len(ChunksOfDocument(GetDocumentByFilename(documents, "a.pdf").id)) = 1

\* the ingestDocument calls in flight that created job j
CallsOfJob(j) == {p \in Ingesters : ing[p].pc # "none" /\ ing[p].jobId = j}

\* C32: an ingestDocument call that finds its file present and changed
\* creates exactly one job, in status 'running', for that file, mtime and
\* hash; when the call returns 'indexed' its job becomes 'success', when it
\* throws its job becomes 'error', and no other job changes; a job is
\* 'running' exactly while the one call that created it is in flight, so
\* none stays 'running' after its call has ended; a job in 'success' or
\* 'error' never changes again, and jobs are never removed.
C32_JobLifecycle ==
    /\ [][\A p \in Ingesters : \A f \in Files :
            (/\ CalledOn(p, f)
             /\ disk[f] # Absent
             /\ LET d == GetDocumentByFilename(documents, f)
                IN d = NoDoc \/ d.hash # disk[f].hash \/ d.mtime # disk[f].mtime)
            =>
              /\ jobs' = Append(jobs, [filename |-> f, status |-> "running",
                                       mtime |-> disk[f].mtime, hash |-> disk[f].hash,
                                       error |-> "none"])
              /\ ing'[p].pc # "none"
              /\ ing'[p].jobId = Len(jobs) + 1]_vars
    /\ [][\A p \in Ingesters :
            /\ IngestEmbedded(p, TRUE) =>
                  /\ jobs'[ing[p].jobId].status = "success"
                  /\ ResultSeenBy(p)'.status = "indexed"
            /\ IngestFailed(p) =>
                  /\ jobs'[ing[p].jobId].status = "error"
                  /\ ResultSeenBy(p)'.status = "error"
            /\ (IngestEmbedded(p, TRUE) \/ IngestFailed(p)) =>
                  /\ ing'[p].pc = "none"
                  /\ Len(jobs') = Len(jobs)
                  /\ \A j \in 1..Len(jobs) : j # ing[p].jobId => jobs'[j] = jobs[j]]_vars
    /\ [](\A j \in 1..Len(jobs) :
            /\ jobs[j].status \in {"running", "success", "error"}
            /\ jobs[j].status = "running" <=> Cardinality(CallsOfJob(j)) = 1
            /\ Cardinality(CallsOfJob(j)) <= 1)
    /\ [][/\ Len(jobs') >= Len(jobs)
          /\ \A j \in 1..Len(jobs) :
                jobs[j].status \in {"success", "error"} => jobs'[j] = jobs[j]]_vars

\* the startup scan's job succeeded, a worker ingestion failed, and the
\* next ingestion of the same file is running
C32_Witness ==
    \E i, j, k \in 1..Len(jobs) :
        /\ jobs[i].status = "success"
        /\ jobs[j].status = "error"
        /\ jobs[k].status = "running"
        /\ j < k
        /\ jobs[j].filename = jobs[k].filename
        /\ \E w \in Workers : ing[w].jobId = k /\ ing[w].pc # "none"

\* ---------------------------------------------------------------------------
\* The specification of the running watcher: the server has started over an
\* indexed a.pdf; the worker is idle, or the ingestion of a file that the
\* watcher reported is in flight.  From there watcher events, file changes,
\* the worker and the embedding queue interleave as in Spec; no chat request
\* arrives.
\* The specification is fair: every continuation that is ready runs (the
\* event loop runs the continuation of a settled promise) and every call that
\* is awaited settles: the document parser, the embedding endpoint once it
\* has been called, and so every ingestDocument call returns or throws.
\* Watcher events and file changes stay free.
\* ---------------------------------------------------------------------------
InitWatch ==
    /\ disk \in InitialDisks
    /\ writes = 0
    /\ documents = PriorStore.docs
    /\ embeddings = PriorStore.embs
    /\ embTask = [o \in Owners |-> NoTask]
    /\ embeddingQueue = "resolved"
    /\ embOrder = <<>>
    /\ embeddingWarmupPromise = "fulfilled"
    /\ chatWarmupPromise = "fulfilled"
    /\ startupPc = "running"
    /\ startupError = NoError
    /\ bulkFiles = <<>>
    /\ bulkResults = <<>>
    /\ pendingFiles = <<>>
    /\ lastResult = NoResult
    /\ events = 0
    /\ reader = [r \in Readers |-> IdleReader]
    /\ retrievals = 0
    /\ \/ /\ jobs = PriorStore.jobs
          /\ ing = [p \in Ingesters |-> IdleIng]
          /\ processingQueue = FALSE
          /\ workerPc = [w \in Workers |-> "idle"]
       \/ \E f \in Files :
             /\ IngestOutcome(f) = "started"
             /\ jobs = StartIndexingJob(PriorStore.jobs, f, disk[f].mtime, disk[f].hash)
             /\ ing = [p \in Ingesters |->
                         IF p = "w1"
                         THEN [pc |-> "parse", filename |-> f, mtime |-> disk[f].mtime,
                               hash |-> disk[f].hash, jobId |-> Len(PriorStore.jobs) + 1]
                         ELSE IdleIng]
             /\ processingQueue = TRUE
             /\ workerPc = [w \in Workers |-> IF w = "w1" THEN "await" ELSE "idle"]
    /\ ServerAtRest(DEFAULT_OUTPUT_TOKENS, 2000, "stream")
    /\ similarity = <<>>
    /\ retrieval = NoRetrieval
    /\ split = NoSplit

NextWatch ==
    \/ \E name \in EventNames : EnqueueFile(name)
    \/ \E w \in Workers : WorkerResume(w)
    \/ \E w \in Workers, ok \in BOOLEAN : IngestParsed(w, ok)
    \/ \E w \in Workers, ok \in BOOLEAN : IngestEmbedded(w, ok)
    \/ \E o \in Owners : EmbeddingTaskStart(o)
    \/ \E f \in ChangingFiles, h \in Hashes : WriteFile(f, h)
    \/ \E f \in ChangingFiles : DeleteFile(f)

Fairness ==
    /\ \A o \in Owners : WF_vars(EmbeddingTaskStart(o))
    /\ \A w \in Workers : WF_vars(\E ok \in BOOLEAN : IngestParsed(w, ok))
    /\ \A w \in Workers : WF_vars(\E ok \in BOOLEAN : IngestEmbedded(w, ok))
    /\ \A w \in Workers : WF_vars(WorkerResume(w))

SpecWatch == InitWatch /\ [][NextWatch]_vars /\ Fairness

\* C33: a PDF name accepted by enqueueFile is passed to ingestDocument in the
\* same step or is in the pending set after it; a name leaves the pending set
\* only by being passed to ingestDocument; every pending name eventually
\* leaves the set; the pending set is empty whenever processingQueue is
\* false; and a failed ingestion sends the worker round its loop again.
C33_WatcherDrains ==
    /\ [][\A name \in Files :
            EnqueueFile(name) =>
              \/ InSeq(name, pendingFiles')
              \/ \E w \in Workers : CalledOn(w, name)]_vars
    /\ [][\A f \in Files :
            (InSeq(f, pendingFiles) /\ ~InSeq(f, pendingFiles')) =>
              \E w \in Workers : CalledOn(w, f)]_vars
    /\ \A f \in Files : InSeq(f, pendingFiles) ~> ~InSeq(f, pendingFiles)
    /\ [](~processingQueue => pendingFiles = <<>>)
    /\ [][\A w \in Workers :
            IngestFailed(w) => workerPc'[w] = "loop" /\ pendingFiles' = pendingFiles]_vars
    /\ \A w \in Workers : workerPc[w] = "loop" ~> workerPc[w] # "loop"

\* an ingestion started by the watcher has failed while another file was
\* waiting, the worker has gone round its loop and the waiting file's
\* ingestion is in flight
C33_Witness ==
    \E w \in Workers :
        /\ lastResult.status = "error"
        /\ ing[w].pc # "none"
        /\ ing[w].filename # lastResult.filename
        /\ pendingFiles = <<>>
        /\ processingQueue

\* the ingestion of f started by the watcher is in flight
InFlightOn(w, f) == ing[w].pc # "none" /\ ing[w].filename = f

\* C34: no filename is twice in the pending set; an event for a file that is
\* pending changes nothing and starts no ingestion; an event for a file
\* whose ingestion is in flight leaves that ingestion alone and puts the
\* file in the pending set; from there the file is eventually taken from
\* the set, and ingestDocument is only ever called by the worker when no
\* watcher ingestion is in flight, so the file is ingested once more after
\* the current ingestion has ended.
C34_BurstCollapse ==
    /\ [](\A i, j \in 1..Len(pendingFiles) : pendingFiles[i] = pendingFiles[j] => i = j)
    /\ [][\A f \in Files :
            (EnqueueFile(f) /\ InSeq(f, pendingFiles)) =>
              /\ pendingFiles' = pendingFiles
              /\ ing' = ing
              /\ jobs' = jobs
              /\ workerPc' = workerPc]_vars
    /\ [][\A f \in Files : \A w \in Workers :
            (EnqueueFile(f) /\ InFlightOn(w, f)) =>
              /\ InSeq(f, pendingFiles')
              /\ ing' = ing
              /\ jobs' = jobs]_vars
    /\ [][\A f \in Files : \A w \in Workers :
            CalledOn(w, f) => \A v \in Workers : ing[v].pc = "none"]_vars
    /\ \A f \in Files : \A w \in Workers :
          (InFlightOn(w, f) /\ InSeq(f, pendingFiles))
              ~> (~InFlightOn(w, f) /\ ~InSeq(f, pendingFiles))

\* while the ingestion of a file is in flight, two more events for that file
\* have arrived and the file is once in the pending set
C34_Witness ==
    \E w \in Workers : \E f \in Files :
        /\ InFlightOn(w, f)
        /\ pendingFiles = <<f>>
        /\ events = 2

\* ---------------------------------------------------------------------------
\* The specification of the embedding queue in the running server: watcher
\* ingestions and the retrievals of chat requests put their embedding tasks
\* on the one queue; each endpoint call succeeds or fails.  Both files are
\* present and do not change.  The specification is fair like SpecWatch,
\* and every retrieval's endpoint call settles too.
\* ---------------------------------------------------------------------------
NextQueue ==
    \/ \E name \in EventNames : EnqueueFile(name)
    \/ \E w \in Workers : WorkerResume(w)
    \/ \E w \in Workers, ok \in BOOLEAN : IngestParsed(w, ok)
    \/ \E w \in Workers, ok \in BOOLEAN : IngestEmbedded(w, ok)
    \/ \E o \in Owners : EmbeddingTaskStart(o)
    \/ \E r \in Readers : RetrieveCall(r)
    \/ \E r \in Readers, ok \in BOOLEAN : RetrieveEmbedded(r, ok)

InitQueue == InitWatch /\ \A f \in Files : disk[f] # Absent

SpecQueue ==
    /\ InitQueue
    /\ [][NextQueue]_vars
    /\ Fairness
    /\ \A r \in Readers : WF_vars(\E ok \in BOOLEAN : RetrieveEmbedded(r, ok))

\* the embedding task of owner o fails in this step
EmbeddingFails(o) ==
    IF o \in Readers THEN RetrieveEmbedded(o, FALSE)
    ELSE IF o \in Ingesters THEN IngestEmbedded(o, FALSE)
    ELSE FALSE

\* C35: when an embedding task fails, only its own caller ends (the retrieval
\* or the ingestion that enqueued it); every other caller stays where it is,
\* every other task stays in the queue in its state, the task chained on the
\* failed one may start, and the queue's tail is not the failed task; and
\* every queued task eventually starts.
C35_EmbeddingFailureIsolated ==
    /\ [][\A o \in Owners :
            EmbeddingFails(o) =>
              /\ embTask'[o] = NoTask
              /\ \A x \in Owners \ {o} :
                    /\ embTask'[x].state = embTask[x].state
                    /\ embTask'[x].after =
                         (IF embTask[x].after = o THEN "resolved" ELSE embTask[x].after)
              /\ embeddingQueue' # o
              /\ \A r \in Readers \ {o} : reader'[r] = reader[r]
              /\ \A p \in Ingesters \ {o} : ing'[p] = ing[p]
              /\ \A j \in 1..Len(jobs) :
                    jobs'[j] # jobs[j] => o \in Ingesters /\ ing[o].jobId = j
              /\ o \in Readers => lastResult' = lastResult /\ workerPc' = workerPc]_vars
    /\ \A o \in Workers \cup Readers :
          embTask[o].state = "queued" ~> embTask[o].state = "running"

\* the embedding task of an ingestion has failed (the worker recorded the
\* error) and the queue goes on: the task of one retrieval is running and
\* the task of another is queued behind it
C35_Witness ==
    \E r \in Readers :
        /\ lastResult.status = "error"
        /\ lastResult.error = "embedding"
        /\ embTask[r].state = "running"
        /\ \E q \in Readers \ {r} : embTask[q].state = "queued" /\ embTask[q].after = r

\* ---------------------------------------------------------------------------
\* The specification of concurrent chat turns: the streaming server has
\* started over an indexed a.pdf; requests arrive on either conversation
\* while earlier ones await their retrieval or their completion.
\* ---------------------------------------------------------------------------
InitChat ==
    /\ InitTurn
    /\ outputTokenCap = DEFAULT_OUTPUT_TOKENS
    /\ systemPromptLen = 2000
    /\ variant = "stream"

NextChat ==
    \/ \E h \in ChatTurns, token \in ConversationIds, m \in ChatMessages :
          ChatArrives(h, token, m)
    \/ \E h \in ChatTurns, contextChunks \in RetrievedContexts :
          ChatRetrieved(h, contextChunks)
    \/ \E h \in ChatTurns : ChatRetrievalFails(h)
    \/ \E h \in ChatTurns, ok \in BOOLEAN : ChatCompleted(h, ok)

SpecChat == InitChat /\ [][NextChat]_vars


\* the last message of the prompt that turn h sent to the endpoint
FinalPromptMessage(h) ==
    messages[chat[h].prompt.history[Len(chat[h].prompt.history)]]

C37_InteractionLinksOwnTurn ==
    /\ [][/\ Len(messages') >= Len(messages)
          /\ \A k \in 1..Len(messages) : messages'[k] = messages[k]
          /\ \A h \in ChatTurns :
                /\ chat'[h].userMessage # chat[h].userMessage =>
                      /\ chat'[h].userMessage \in (Len(messages) + 1)..Len(messages')
                      /\ chat[h].userMessage = 0
                /\ chat'[h].aiMessage # chat[h].aiMessage =>
                      /\ chat'[h].aiMessage \in (Len(messages) + 1)..Len(messages')
                      /\ chat[h].aiMessage = 0]_vars
    /\ [](\A i \in 1..Len(interactions) :
            \E h \in ChatTurns :
               /\ chat[h].pc = "done"
               /\ chat[h].token = interactions[i].conversation_id
               /\ chat[h].userMessage = interactions[i].user_message_id
               /\ chat[h].aiMessage = interactions[i].ai_message_id
               /\ messages[chat[h].userMessage].role = "user"
               /\ messages[chat[h].userMessage].conversation_id = chat[h].token
               /\ messages[chat[h].aiMessage].role = "assistant"
               /\ messages[chat[h].aiMessage].conversation_id = chat[h].token)
    /\ [](\A h \in ChatTurns :
            chat[h].pc = "done" =>
               \E i \in 1..Len(interactions) :
                  interactions[i].user_message_id = chat[h].userMessage)
    /\ [](\A i, j \in 1..Len(interactions) :
            interactions[i].user_message_id = interactions[j].user_message_id => i = j)

\* two turns on one conversation have interleaved and ended: between the
\* user message and the assistant message of one Interaction lies a row of
\* the other turn
C37_Witness ==
    /\ Len(interactions) = 2
    /\ interactions[1].conversation_id = interactions[2].conversation_id
    /\ \E i \in 1..2 :
          interactions[i].ai_message_id > interactions[i].user_message_id + 1
    /\ \A h \in ChatTurns : chat[h].pc = "done"


\* ---------------------------------------------------------------------------
\* The specification of splitText: one call on a text, a chunk size C and an
\* overlap O with 0 <= O < C, in the running server.  The loop is synchronous
\* code, so each of its turns is taken: the specification is fair on them.
\* ---------------------------------------------------------------------------
InitSplit ==
    /\ disk = [f \in Files |-> IF f = "a.pdf" THEN [hash |-> 1, mtime |-> 1] ELSE Absent]
    /\ writes = 0
    /\ documents = PriorStore.docs
    /\ embeddings = PriorStore.embs
    /\ jobs = PriorStore.jobs
    /\ embTask = [o \in Owners |-> NoTask]
    /\ embeddingQueue = "resolved"
    /\ embOrder = <<>>
    /\ embeddingWarmupPromise = "fulfilled"
    /\ chatWarmupPromise = "fulfilled"
    /\ startupPc = "running"
    /\ startupError = NoError
    /\ bulkFiles = <<>>
    /\ bulkResults = <<[filename |-> "a.pdf", status |-> "skipped", error |-> "none"]>>
    /\ ing = [p \in Ingesters |-> IdleIng]
    /\ pendingFiles = <<>>
    /\ processingQueue = FALSE
    /\ workerPc = [w \in Workers |-> "idle"]
    /\ lastResult = NoResult
    /\ events = 0
    /\ reader = [r \in Readers |-> IdleReader]
    /\ retrievals = 0
    /\ ServerAtRest(DEFAULT_OUTPUT_TOKENS, 2000, "stream")
    /\ similarity = <<>>
    /\ retrieval = NoRetrieval
    /\ \E text \in SplitTexts, chunkSize \in 1..MaxChunkSize :
          \E chunkOverlap \in 0..(chunkSize - 1) :
             split = SplitTextCall(text, chunkSize, chunkOverlap)

NextSplit == SplitTextLoop \/ SplitTextReturn

SpecSplit ==
    /\ InitSplit
    /\ [][NextSplit]_vars
    /\ WF_vars(SplitTextLoop)
    /\ WF_vars(SplitTextReturn)

\* the characters two windows have in common
Shared(v, w) == Max(0, Min(v.end, w.end) - Max(v.start, w.start))

\* the chunks of a text by definition: its windows of C characters every
\* C - O characters, trimmed, the empty ones left out
TrimmedWindows(text, chunkSize, chunkOverlap) ==
    LET step == chunkSize - chunkOverlap
        count == (Len(text) + step - 1) \div step
        all == [k \in 1..count |->
                  Trim(Slice(text, (k - 1) * step,
                             Min(Len(text), (k - 1) * step + chunkSize)))]
    IN SelectSeq(all, LAMBDA c : c # <<>>)

\* C38 as written: any two consecutive windows share exactly O characters.
C38_ConsecutiveWindowsShareOverlap ==
    \A k \in 1..(Len(split.windows) - 1) :
        Shared(split.windows[k], split.windows[k + 1]) = split.chunkOverlap

\* C38, amended: splitText returns; its k-th window starts at (k-1)(C-O) and
\* is C characters long or ends with the text; a window of C characters
\* shares O characters with the next one, a window cut short by the end of
\* the text shares with the next one all of that next window, which is
\* shorter than O; once splitText has returned, every position of the text
\* is in a window; no chunk is empty or starts or ends with white space; and
\* the chunks returned are the trimmed non-empty windows of the text, in order.
C38_Chunking ==
    /\ <>(split.pc = "returned")
    /\ [](LET w == split.windows
              C == split.chunkSize
              O == split.chunkOverlap
              L == Len(split.text)
          IN /\ \A k \in 1..Len(w) :
                   /\ w[k].start = (k - 1) * (C - O)
                   /\ w[k].start < L
                   /\ w[k].end = Min(L, w[k].start + C)
             /\ \A k \in 1..(Len(w) - 1) :
                   IF w[k].end - w[k].start = C
                   THEN Shared(w[k], w[k + 1]) = O
                   ELSE /\ Shared(w[k], w[k + 1]) = w[k + 1].end - w[k + 1].start
                        /\ Shared(w[k], w[k + 1]) < O
                        /\ w[k + 1].end = L
             /\ \A i \in 1..Len(split.chunks) :
                   /\ split.chunks[i] # <<>>
                   /\ split.chunks[i][1] # " "
                   /\ split.chunks[i][Len(split.chunks[i])] # " "
             /\ split.pc = "returned" =>
                   /\ \A pos \in 0..(L - 1) :
                         \E k \in 1..Len(w) : w[k].start <= pos /\ pos < w[k].end
                   /\ split.chunks = TrimmedWindows(split.text, C, O))

\* splitText has returned from a text whose last two windows are cut short
\* by the end of the text, and one window was white space only
C38_Witness ==
    /\ split.pc = "returned"
    /\ Len(split.windows) >= 3
    /\ Len(split.chunks) < Len(split.windows)
    /\ split.chunks # <<>>
    /\ Shared(split.windows[Len(split.windows) - 1], split.windows[Len(split.windows)])
          < split.chunkOverlap

====
